---- MODULE Spec2Model ----
(***************************************************************************)
(* Nurigo/Solapi SMS proxy (src/nurigo_server_fixed.py): the roster        *)
(* normaliser, the roster and SMS endpoints behind check_auth, and the     *)
(* part of the bundled web UI that reads the roster and sends a message.   *)
(*                                                                         *)
(* Python values are tagged records: JNull, JBool, JNum, JStr, JList and   *)
(* JDict (a dict is the sequence of its items in insertion order, keys     *)
(* unique).  Python strings are TLA+ strings, read one character at a time *)
(* with Ch.  TLA+ strings hold Latin-1 only, so the Hangul literals of the *)
(* source are written in their romanisation (see the H_ definitions).      *)
(***************************************************************************)
EXTENDS Integers, Sequences, FiniteSets, TLC

VARIABLES
    AUTH_TOKEN,      \* module constant read from the environment at start
    FORWARD_URL,     \* "" when unset
    SOLAPI_KEY,
    SOLAPI_SECRET,
    DEFAULT_SENDER,
    rosterJson,      \* the file data/roster.json
    rosterCsv,       \* the file static/roster.csv
    smsLog,          \* the lines of logs/sms_log.jsonl
    outbound,        \* the requests.post calls made so far
    req,             \* the request being answered
    resp,            \* the answer to it
    state,           \* the web UI's `state` object
    call             \* a call of a pure helper: its argument and result

vars == <<AUTH_TOKEN, FORWARD_URL, SOLAPI_KEY, SOLAPI_SECRET, DEFAULT_SENDER,
          rosterJson, rosterCsv, smsLog, outbound, req, resp, state, call>>

env == <<AUTH_TOKEN, FORWARD_URL, SOLAPI_KEY, SOLAPI_SECRET, DEFAULT_SENDER>>

----------------------------------------------------------------------------
(* Bounds of the model.                                                    *)

\* longest string handed to normalize_phone in SpecPhone
MaxLen == 3
\* most entries in one list of an enumerated request body or table
MaxRows == 2
\* most lines the model lets the SMS log grow to
MaxLog == 2

----------------------------------------------------------------------------
(* Python strings.                                                         *)

Ch(s, i) == SubSeq(s, i, i)

RestFrom(s, i) == SubSeq(s, i, Len(s))

\* str.isdigit(): true of '0'-'9' and of every other character whose Unicode
\* Numeric_Type is Digit or Decimal, such as SUPERSCRIPT TWO.
AsciiDigits == {"0", "1", "2", "3", "4", "5", "6", "7", "8", "9"}

UnicodeDigits == {"²"}

isdigit(ch) == ch \in AsciiDigits \cup UnicodeDigits

\* the characters str.strip() removes
Whitespace == {" ", "\t", "\n", "\r"}

RECURSIVE lstrip(_)
lstrip(s) ==
    IF Len(s) > 0 /\ Ch(s, 1) \in Whitespace THEN lstrip(RestFrom(s, 2)) ELSE s

RECURSIVE rstrip(_)
rstrip(s) ==
    IF Len(s) > 0 /\ Ch(s, Len(s)) \in Whitespace
    THEN rstrip(SubSeq(s, 1, Len(s) - 1))
    ELSE s

strip(s) == rstrip(lstrip(s))

startswith(s, p) == Len(s) >= Len(p) /\ SubSeq(s, 1, Len(p)) = p

endswith(s, p) == Len(s) >= Len(p) /\ SubSeq(s, Len(s) - Len(p) + 1, Len(s)) = p

UpperLetters == "ABCDEFGHIJKLMNOPQRSTUVWXYZ"

LowerLetters == "abcdefghijklmnopqrstuvwxyz"

UpperSet == {Ch(UpperLetters, i) : i \in 1..26}

\* the lower-case letter of each upper-case one
LowerOf ==
    [c \in UpperSet |-> Ch(LowerLetters, CHOOSE i \in 1..26 : Ch(UpperLetters, i) = c)]

lowerCh(c) == IF c \in UpperSet THEN LowerOf[c] ELSE c

RECURSIVE lower(_)
lower(s) == IF Len(s) = 0 THEN "" ELSE lowerCh(Ch(s, 1)) \o lower(RestFrom(s, 2))

\* s.split(" ", 1)[1] for an s that holds a space: what follows the first one
RECURSIVE AfterFirstSpace(_)
AfterFirstSpace(s) ==
    IF Len(s) = 0 THEN ""
    ELSE IF Ch(s, 1) = " " THEN RestFrom(s, 2)
    ELSE AfterFirstSpace(RestFrom(s, 2))

DigitChars == "0123456789"

RECURSIVE IntStr(_)
IntStr(n) ==
    IF n < 0 THEN "-" \o IntStr(0 - n)
    ELSE IF n < 10 THEN Ch(DigitChars, n + 1)
    ELSE IntStr(n \div 10) \o Ch(DigitChars, (n % 10) + 1)

\* every string over the characters of `alphabet` of length at most n
RECURSIVE Strings(_, _)
Strings(alphabet, n) ==
    IF n = 0 THEN {""}
    ELSE LET shorter == Strings(alphabet, n - 1)
         IN  shorter \cup {s \o c : s \in shorter, c \in alphabet}

----------------------------------------------------------------------------
(* Python / JSON values.                                                   *)

JNull == [t |-> "null"]

JBool(b) == [t |-> "bool", v |-> b]

JNum(n) == [t |-> "num", v |-> n]

JStr(s) == [t |-> "str", v |-> s]

JList(items) == [t |-> "list", v |-> items]

\* items: a sequence of [k |-> string, v |-> value], keys unique
JDict(items) == [t |-> "dict", v |-> items]

KV(key, val) == [k |-> key, v |-> val]

IsDict(x) == x.t = "dict"

IsList(x) == x.t = "list"

IsNone(x) == x.t = "null"

\* bool(x)
Truthy(x) ==
    CASE x.t = "null" -> FALSE
      [] x.t = "bool" -> x.v
      [] x.t = "num"  -> x.v # 0
      [] x.t = "str"  -> x.v # ""
      [] OTHER        -> Len(x.v) > 0

\* a or b
PyOr(a, b) == IF Truthy(a) THEN a ELSE b

RECURSIVE JoinRepr(_, _)
RECURSIVE repr(_)
\* ", ".join of the reprs of a list's items, or of a dict's key: value items
JoinRepr(items, isDict) ==
    IF Len(items) = 0 THEN ""
    ELSE LET one == IF isDict
                    THEN "'" \o items[1].k \o "': " \o repr(items[1].v)
                    ELSE repr(items[1])
         IN  one \o (IF Len(items) = 1 THEN "" ELSE ", " \o JoinRepr(Tail(items), isDict))
repr(x) ==
    CASE x.t = "null" -> "None"
      [] x.t = "bool" -> IF x.v THEN "True" ELSE "False"
      [] x.t = "num"  -> IntStr(x.v)
      [] x.t = "str"  -> "'" \o x.v \o "'"
      [] x.t = "list" -> "[" \o JoinRepr(x.v, FALSE) \o "]"
      [] OTHER        -> "{" \o JoinRepr(x.v, TRUE) \o "}"

\* str(x)
str(x) == IF x.t = "str" THEN x.v ELSE repr(x)

HasKey(d, key) == \E i \in 1..Len(d.v) : d.v[i].k = key

\* d.get(key, default)
DictGet(d, key, default) ==
    IF HasKey(d, key)
    THEN d.v[CHOOSE i \in 1..Len(d.v) : d.v[i].k = key].v
    ELSE default

\* d[key] = val: an existing key keeps its place, a new key goes last
DictSet(d, key, val) ==
    IF HasKey(d, key)
    THEN JDict([i \in 1..Len(d.v) |-> IF d.v[i].k = key THEN KV(key, val) ELSE d.v[i]])
    ELSE JDict(Append(d.v, KV(key, val)))

\* d.setdefault(key, []).append(val)
DictAppend(d, key, val) ==
    DictSet(d, key, JList(Append(DictGet(d, key, JList(<<>>)).v, val)))

Keys(d) == {d.v[i].k : i \in 1..Len(d.v)}

----------------------------------------------------------------------------
(* normalize_phone                                                         *)

RECURSIVE KeepDigits(_)
KeepDigits(s) ==
    IF Len(s) = 0 THEN ""
    ELSE (IF isdigit(Ch(s, 1)) THEN Ch(s, 1) ELSE "") \o KeepDigits(RestFrom(s, 2))

\* A faulty normalize_phone: a leading zero of the digits is dropped.
normalize_phone_DropLeadingZero(s) ==
    LET digits == KeepDigits(str(PyOr(s, JStr(""))))
    IN  IF Len(digits) > 0 /\ Ch(digits, 1) = "0" THEN RestFrom(digits, 2) ELSE digits

normalize_phone(s) == KeepDigits(str(PyOr(s, JStr(""))))

----------------------------------------------------------------------------
(* Romanised stand-ins for the Hangul literals of the source.              *)

\* "담당"
H_damdang == "damdang"
\* "선생님"
H_seonsaengnim == "seonsaengnim"
\* "이름"
H_ireum == "ireum"
\* "학부모"
H_hakbumo == "hakbumo"
\* "학부모전화"
H_hakbumojeonhwa == "hakbumojeonhwa"
\* "학생"
H_haksaeng == "haksaeng"
\* "학생전화"
H_haksaengjeonhwa == "haksaengjeonhwa"

----------------------------------------------------------------------------
(* Roster builders.  A roster is a JDict from teacher to a JList of        *)
(* student records; a record is a JDict with the keys name, parentPhone    *)
(* and studentPhone, in that order.                                        *)

EmptyDict == JDict(<<>>)

StudentRecord(name, parentPhone, studentPhone) ==
    JDict(<<KV("name", JStr(name)),
            KV("parentPhone", JStr(parentPhone)),
            KV("studentPhone", JStr(studentPhone))>>)

\* A CSV text as csv.reader splits it: the first row and the rows after it.
\* A text with no row at all has header <<>> and no rows.
CsvTable(header, rows) == [header |-> header, rows |-> rows]

\* row.get(key) on the dict csv.DictReader makes of a row: zip(fieldnames, row),
\* a later duplicate field name winning, then restval None for every field name
\* past the end of a short row.
RowGet(header, row, key) ==
    LET short == {i \in 1..Len(header) : i > Len(row) /\ header[i] = key}
        have  == {i \in 1..Len(header) : i <= Len(row) /\ header[i] = key}
    IN  IF short # {} \/ have = {} THEN JNull
        ELSE JStr(row[CHOOSE i \in have : \A j \in have : j <= i])

\* A faulty loop body: with no parent-phone column the row's last cell is
\* taken for the parent's phone.
CsvRow_GuessPhone(header, row, out) ==
    LET teacher == strip(PyOr(PyOr(PyOr(RowGet(header, row, "teacher"),
                                         RowGet(header, row, H_damdang)),
                                    RowGet(header, row, H_seonsaengnim)),
                               JStr("")).v)
        name == strip(PyOr(PyOr(RowGet(header, row, "name"),
                                RowGet(header, row, H_ireum)),
                           JStr("")).v)
        parent_phone ==
            normalize_phone(PyOr(PyOr(PyOr(PyOr(PyOr(RowGet(header, row, "parentPhone"),
                                                     RowGet(header, row, "parent")),
                                                RowGet(header, row, H_hakbumo)),
                                           RowGet(header, row, H_hakbumojeonhwa)),
                                      JStr(row[Len(row)])),
                                 JStr("")))
        student_phone ==
            normalize_phone(PyOr(PyOr(PyOr(PyOr(RowGet(header, row, "studentPhone"),
                                                RowGet(header, row, "student")),
                                           RowGet(header, row, H_haksaeng)),
                                      RowGet(header, row, H_haksaengjeonhwa)),
                                 JStr("")))
    IN  IF teacher = "" \/ name = "" THEN out
        ELSE DictAppend(out, teacher, StudentRecord(name, parent_phone, student_phone))

\* the body of the loop over the DictReader's rows
CsvRow(header, row, out) ==
    LET teacher == strip(PyOr(PyOr(PyOr(RowGet(header, row, "teacher"),
                                         RowGet(header, row, H_damdang)),
                                    RowGet(header, row, H_seonsaengnim)),
                               JStr("")).v)
        name == strip(PyOr(PyOr(RowGet(header, row, "name"),
                                RowGet(header, row, H_ireum)),
                           JStr("")).v)
        parent_phone ==
            normalize_phone(PyOr(PyOr(PyOr(PyOr(RowGet(header, row, "parentPhone"),
                                                RowGet(header, row, "parent")),
                                           RowGet(header, row, H_hakbumo)),
                                      RowGet(header, row, H_hakbumojeonhwa)),
                                 JStr("")))
        student_phone ==
            normalize_phone(PyOr(PyOr(PyOr(PyOr(RowGet(header, row, "studentPhone"),
                                                RowGet(header, row, "student")),
                                           RowGet(header, row, H_haksaeng)),
                                      RowGet(header, row, H_haksaengjeonhwa)),
                                 JStr("")))
    IN  IF teacher = "" \/ name = "" THEN out
        ELSE DictAppend(out, teacher, StudentRecord(name, parent_phone, student_phone))

\* csv.DictReader skips the rows that are empty lists (blank lines)
RECURSIVE CsvRows(_, _, _)
CsvRows(header, rows, out) ==
    IF Len(rows) = 0 THEN out
    ELSE CsvRows(header, Tail(rows),
                 IF Len(Head(rows)) = 0 THEN out ELSE CsvRow(header, Head(rows), out))

roster_from_csv_text(text) == CsvRows(text.header, text.rows, EmptyDict)

\* the loop over one teacher's list: non-dict items and items with an empty
\* name are dropped, the others normalised
RECURSIVE NormItems(_)
NormItems(arr) ==
    IF Len(arr) = 0 THEN <<>>
    ELSE LET it == Head(arr)
             name == IF IsDict(it) THEN strip(str(DictGet(it, "name", JStr(""))))
                     ELSE ""
         IN  (IF ~IsDict(it) \/ name = "" THEN <<>>
              ELSE <<StudentRecord(name,
                        normalize_phone(DictGet(it, "parentPhone", JStr(""))),
                        normalize_phone(DictGet(it, "studentPhone", JStr(""))))>>)
             \o NormItems(Tail(arr))

\* the loop over a {teacher: list} dict of roster_from_json and api_roster_set:
\* a teacher is kept when at least one of its items is
RECURSIVE NormTeachers(_, _)
NormTeachers(items, out) ==
    IF Len(items) = 0 THEN out
    ELSE LET t == Head(items).k
             arr == Head(items).v
             norm == IF IsList(arr) THEN NormItems(arr.v) ELSE <<>>
         IN  NormTeachers(Tail(items),
                 IF IsList(arr) /\ Len(norm) > 0
                 THEN DictSet(out, strip(t), JList(norm))
                 ELSE out)

\* the loop over a flat list of student objects of roster_from_json and
\* api_roster_import_student_mgmt
RECURSIVE GroupStudents(_, _)
GroupStudents(students, out) ==
    IF Len(students) = 0 THEN out
    ELSE LET s == Head(students)
             teacher == IF IsDict(s) THEN strip(str(DictGet(s, "teacher", JStr(""))))
                        ELSE ""
             name == IF IsDict(s) THEN strip(str(DictGet(s, "name", JStr(""))))
                     ELSE ""
         IN  GroupStudents(Tail(students),
                 IF ~IsDict(s) \/ teacher = "" \/ name = "" THEN out
                 ELSE DictAppend(out, teacher,
                          StudentRecord(name,
                              normalize_phone(DictGet(s, "parentPhone", JStr(""))),
                              normalize_phone(DictGet(s, "studentPhone", JStr(""))))))

AllValuesLists(obj) == \A i \in 1..Len(obj.v) : IsList(obj.v[i].v)

\* the `students` roster_from_json looks for when obj is no direct roster dict
StudentsOf(obj) ==
    LET top == IF IsDict(obj) THEN DictGet(obj, "students", JNull) ELSE JNull
        data == IF IsDict(obj) THEN DictGet(obj, "data", JNull) ELSE JNull
        inner == IF IsDict(obj) /\ IsNone(top) /\ IsDict(data)
                 THEN DictGet(data, "students", JNull)
                 ELSE top
    IN  IF IsNone(inner) /\ IsList(obj) THEN obj ELSE inner

roster_from_json(obj) ==
    IF IsDict(obj) /\ AllValuesLists(obj)
    THEN NormTeachers(obj.v, EmptyDict)
    ELSE IF ~IsList(StudentsOf(obj)) THEN EmptyDict
    ELSE GroupStudents(StudentsOf(obj).v, EmptyDict)

----------------------------------------------------------------------------
(* The roster files.                                                       *)

\* a file that is not there
NoFile == [exists |-> FALSE, readable |-> FALSE, data |-> JNull]

\* data/roster.json holding the JSON text of `data`
JsonFile(data) == [exists |-> TRUE, readable |-> TRUE, data |-> data]

\* a file that is there and cannot be read or parsed
BadFile == [exists |-> TRUE, readable |-> FALSE, data |-> JNull]

\* static/roster.csv holding a CSV text
CsvFile(table) == [exists |-> TRUE, readable |-> TRUE, data |-> table]

\* load_roster's loop over the dict read from roster.json: every teacher whose
\* value is a list is kept, also with no item left
RECURSIVE LoadTeachers(_, _)
LoadTeachers(items, out) ==
    IF Len(items) = 0 THEN out
    ELSE LET t == Head(items).k
             arr == Head(items).v
         IN  LoadTeachers(Tail(items),
                 IF IsList(arr) THEN DictSet(out, strip(t), JList(NormItems(arr.v)))
                 ELSE out)

\* A faulty load_roster: a roster.json that holds no teacher is passed over
\* for static/roster.csv.
LoadRosterFrom_CsvWhenEmpty(jsonFile, csvFile) ==
    LET data == PyOr(jsonFile.data, EmptyDict)
    IN  IF jsonFile.exists /\ jsonFile.readable /\ IsDict(data) /\ Truthy(data)
        THEN LoadTeachers(data.v, EmptyDict)
        ELSE IF csvFile.exists
        THEN (IF csvFile.readable THEN roster_from_csv_text(csvFile.data) ELSE EmptyDict)
        ELSE EmptyDict

\* A faulty load_roster: static/roster.csv is read first whenever it is there.
LoadRosterFrom_CsvFirst(jsonFile, csvFile) ==
    LET data == PyOr(jsonFile.data, EmptyDict)
    IN  IF csvFile.exists /\ csvFile.readable
        THEN roster_from_csv_text(csvFile.data)
        ELSE IF jsonFile.exists /\ jsonFile.readable /\ IsDict(data)
        THEN LoadTeachers(data.v, EmptyDict)
        ELSE EmptyDict

\* load_roster reading the two files
LoadRosterFrom(jsonFile, csvFile) ==
    LET data == PyOr(jsonFile.data, EmptyDict)
    IN  IF jsonFile.exists /\ jsonFile.readable /\ IsDict(data)
        THEN LoadTeachers(data.v, EmptyDict)
        ELSE IF csvFile.exists
        THEN (IF csvFile.readable THEN roster_from_csv_text(csvFile.data) ELSE EmptyDict)
        ELSE EmptyDict

load_roster == LoadRosterFrom(rosterJson, rosterCsv)

\* save_roster(data): roster.json is written anew
save_roster(data) == rosterJson' = JsonFile(data)

----------------------------------------------------------------------------
(* Requests and responses.                                                 *)

\* a request body that is no JSON text: request.get_json(force=True) raises
NotJson == [t |-> "invalid"]

\* request.get_json(force=True) or {}, and {} when it raises
get_json(body) == IF body.t = "invalid" THEN EmptyDict ELSE PyOr(body, EmptyDict)

\* a response: its status and its JSON body; fault marks the 500 answer Flask
\* gives when the handler raised
Response(status, body) == [status |-> status, body |-> body, fault |-> FALSE]

Uncaught == [status |-> 500, body |-> JNull, fault |-> TRUE]

ErrorBody(error) == JDict(<<KV("ok", JBool(FALSE)), KV("error", JStr(error))>>)

\* sorted(list(out.keys())): a sorted list of distinct keys, kept as their set
SortedKeys(out) == [t |-> "sorted", v |-> Keys(out)]

\* A faulty check_auth: any bearer token passes.
check_auth_AnyBearer(got) == AUTH_TOKEN = "" \/ startswith(got, "Bearer ")

\* check_auth(): whether the Authorization header `got` ("" when absent) passes
check_auth(got) ==
    \/ AUTH_TOKEN = ""
    \/ /\ startswith(got, "Bearer ")
       /\ strip(AfterFirstSpace(got)) = AUTH_TOKEN

Unauthorized == Response(401, ErrorBody("unauthorized"))

\* what every handler leaves alone: the configuration, the static roster and
\* the function call under study
Frame == UNCHANGED <<env, rosterCsv, call>>

----------------------------------------------------------------------------
(* Roster endpoints.                                                       *)

\* GET /api/roster
api_roster_get(auth) ==
    /\ req' = [ep |-> "GET /api/roster", auth |-> auth, body |-> JNull]
    /\ resp' = IF ~check_auth(auth) THEN Unauthorized
               ELSE Response(200, JDict(<<KV("ok", JBool(TRUE)), KV("roster", load_roster)>>))
    /\ UNCHANGED <<rosterJson, smsLog, outbound>>
    /\ Frame

\* A faulty api_roster_set: the stored roster is emptied before the new one
\* is looked at, so a refused body leaves roster.json empty.
api_roster_set_ClearsFirst(auth, body) ==
    LET payload == get_json(body)
        roster == DictGet(payload, "roster", JNull)
        out == NormTeachers(roster.v, EmptyDict)
    IN  /\ req' = [ep |-> "POST /api/roster", auth |-> auth, body |-> body]
        /\ IF ~check_auth(auth)
           THEN resp' = Unauthorized /\ UNCHANGED rosterJson
           ELSE IF ~IsDict(payload)
           THEN resp' = Uncaught /\ save_roster(EmptyDict)
           ELSE IF ~IsDict(roster)
           THEN resp' = Response(400, ErrorBody("invalid roster")) /\ save_roster(EmptyDict)
           ELSE /\ save_roster(out)
                /\ resp' = Response(200, JDict(<<KV("ok", JBool(TRUE)),
                                                 KV("teachers", SortedKeys(out))>>))
        /\ UNCHANGED <<smsLog, outbound>>
        /\ Frame

\* POST /api/roster
api_roster_set(auth, body) ==
    LET payload == get_json(body)
        roster == DictGet(payload, "roster", JNull)
        out == NormTeachers(roster.v, EmptyDict)
    IN  /\ req' = [ep |-> "POST /api/roster", auth |-> auth, body |-> body]
        /\ IF ~check_auth(auth)
           THEN resp' = Unauthorized /\ UNCHANGED rosterJson
           ELSE IF ~IsDict(payload)
           THEN resp' = Uncaught /\ UNCHANGED rosterJson
           ELSE IF ~IsDict(roster)
           THEN resp' = Response(400, ErrorBody("invalid roster")) /\ UNCHANGED rosterJson
           ELSE /\ save_roster(out)
                /\ resp' = Response(200, JDict(<<KV("ok", JBool(TRUE)),
                                                 KV("teachers", SortedKeys(out))>>))
        /\ UNCHANGED <<smsLog, outbound>>
        /\ Frame

\* An uploaded file: its name, whether it has any byte, the value json.loads
\* gives for it (NotJson when it raises) and the table csv.reader makes of it.
UploadedFile(filename, empty, json, table) ==
    [present |-> TRUE, filename |-> filename, empty |-> empty, json |-> json,
     table |-> table]

\* a request with no part named 'file'
NoUpload ==
    [present |-> FALSE, filename |-> "", empty |-> TRUE, json |-> NotJson,
     table |-> CsvTable(<<>>, <<>>)]

\* POST /api/roster/upload
api_roster_upload(auth, f) ==
    LET raw_name == lower(f.filename)
        isJson == endswith(raw_name, ".json")
        roster == IF isJson THEN roster_from_json(f.json)
                  ELSE roster_from_csv_text(f.table)
    IN  /\ req' = [ep |-> "POST /api/roster/upload", auth |-> auth, body |-> f]
        /\ IF ~check_auth(auth)
           THEN resp' = Unauthorized /\ UNCHANGED rosterJson
           ELSE IF ~f.present
           THEN resp' = Response(400, ErrorBody("missing file")) /\ UNCHANGED rosterJson
           ELSE IF f.empty
           THEN resp' = Response(400, ErrorBody("empty file")) /\ UNCHANGED rosterJson
           ELSE IF isJson /\ f.json.t = "invalid"
           THEN resp' = Response(400, ErrorBody("invalid json")) /\ UNCHANGED rosterJson
           ELSE /\ save_roster(roster)
                /\ resp' = Response(200,
                       JDict(<<KV("ok", JBool(TRUE)),
                               KV("teachers", SortedKeys(roster)),
                               KV("source", JStr(IF isJson THEN "json" ELSE "csv"))>>))
        /\ UNCHANGED <<smsLog, outbound>>
        /\ Frame

\* the `students` api_roster_import_student_mgmt works out of the payload
ImportStudents(payload) ==
    LET s1 == IF IsDict(payload) THEN DictGet(payload, "students", JNull) ELSE JNull
        s2 == IF IsNone(s1) /\ IsDict(payload)
              THEN PyOr(DictGet(payload, "data", JNull), DictGet(payload, "state", JNull))
              ELSE s1
        s3 == IF IsNone(s2) /\ IsList(payload) THEN payload ELSE s2
    IN  IF ~IsList(s3)
        THEN (IF IsDict(payload) THEN DictGet(payload, "students", JNull) ELSE JNull)
        ELSE s3

RECURSIVE CountRecords(_)
\* sum(len(v) for v in out.values()), given out's items
CountRecords(items) ==
    IF Len(items) = 0 THEN 0 ELSE Len(Head(items).v.v) + CountRecords(Tail(items))

\* POST /api/roster/import_student_mgmt
api_roster_import_student_mgmt(auth, body) ==
    LET payload == get_json(body)
        students == ImportStudents(payload)
        out == GroupStudents(students.v, EmptyDict)
    IN  /\ req' = [ep |-> "POST /api/roster/import_student_mgmt", auth |-> auth,
                   body |-> body]
        /\ IF ~check_auth(auth)
           THEN resp' = Unauthorized /\ UNCHANGED rosterJson
           ELSE IF ~IsList(students)
           THEN resp' = Response(400, ErrorBody("students not found"))
                /\ UNCHANGED rosterJson
           ELSE /\ save_roster(out)
                /\ resp' = Response(200,
                       JDict(<<KV("ok", JBool(TRUE)),
                               KV("imported", JNum(CountRecords(out.v))),
                               KV("teachers", SortedKeys(out))>>))
        /\ UNCHANGED <<smsLog, outbound>>
        /\ Frame

----------------------------------------------------------------------------
(* SMS endpoints.  The disk is writable: append_log and save_roster do     *)
(* what they are called for.                                               *)

current_provider ==
    IF FORWARD_URL # "" THEN "forward"
    ELSE IF SOLAPI_KEY # "" /\ SOLAPI_SECRET # "" THEN "solapi"
    ELSE "mock"

\* utc_now_iso(): the reading of the clock, which nothing here looks into
utc_now_iso == JStr("<now>")

\* append_log(event) on the lines `log` of logs/sms_log.jsonl
append_log(log, event) ==
    Append(log, IF HasKey(event, "at") THEN event ELSE DictSet(event, "at", utc_now_iso))

\* What the gateway does with one requests.post: the call raises, or it
\* answers with a status and a body that is JSON or is not.
ProviderReply(raised, status, isJson) ==
    [raised |-> raised, status |-> status, isJson |-> isJson]

Replies ==
    << ProviderReply(FALSE, 200, TRUE),
       ProviderReply(TRUE, 0, FALSE),
       ProviderReply(FALSE, 500, TRUE),
       ProviderReply(FALSE, 200, FALSE) >>

\* one requests.post of send_one_sms
OutboundCall(url, to, from_num, text) ==
    [url |-> url, to |-> to, from |-> from_num, text |-> text]

\* the mock answer of send_one_sms
Echo(to, from_num, text) ==
    JDict(<<KV("ok", JBool(TRUE)), KV("provider", JStr("mock")), KV("dry", JBool(TRUE)),
            KV("echo", JDict(<<KV("to", JStr(to)), KV("from", JStr(from_num)),
                               KV("text", JStr(text)), KV("len", JNum(Len(text)))>>)),
            KV("at", utc_now_iso)>>)

\* the answer send_one_sms makes of the gateway's reply
Relayed(provider, reply) ==
    IF reply.raised
    THEN [status |-> 502,
          result |-> JDict(<<KV("ok", JBool(FALSE)),
                             KV("error", JStr(provider \o "-failed")),
                             KV("detail", JStr("<error>"))>>)]
    ELSE [status |-> reply.status,
          result |-> JDict(<<KV("ok", JBool(reply.status < 300)),
                             KV("provider", JStr(provider)),
                             KV("response", IF reply.isJson THEN JStr("<json>")
                                            ELSE JDict(<<KV("raw", JStr("<text>"))>>))>>)]

\* A faulty send_one_sms: a forward call that raised is tried again at Solapi.
send_one_sms_SolapiFallback(to0, from0, text0, dry, reply) ==
    LET to == strip(to0)
        from1 == strip(IF from0 = "" THEN DEFAULT_SENDER ELSE from0)
        from_num == IF from1 = "" THEN DEFAULT_SENDER ELSE from1
        text == strip(text0)
        solapi == OutboundCall("https://api.solapi.com/messages/v4/send", to, from_num, text)
        answered == ProviderReply(FALSE, 200, TRUE)
    IN  IF dry
        THEN [status |-> 200, result |-> Echo(to, from_num, text), sent |-> <<>>]
        ELSE IF FORWARD_URL # "" /\ ~reply.raised
        THEN [status |-> Relayed("forward", reply).status,
              result |-> Relayed("forward", reply).result,
              sent |-> <<OutboundCall(FORWARD_URL, to, from_num, text)>>]
        ELSE IF SOLAPI_KEY # "" /\ SOLAPI_SECRET # ""
        THEN [status |-> Relayed("solapi", IF FORWARD_URL # "" THEN answered ELSE reply).status,
              result |-> Relayed("solapi", IF FORWARD_URL # "" THEN answered ELSE reply).result,
              sent |-> (IF FORWARD_URL # ""
                        THEN <<OutboundCall(FORWARD_URL, to, from_num, text)>> ELSE <<>>)
                       \o <<solapi>>]
        ELSE IF FORWARD_URL # ""
        THEN [status |-> Relayed("forward", reply).status,
              result |-> Relayed("forward", reply).result,
              sent |-> <<OutboundCall(FORWARD_URL, to, from_num, text)>>]
        ELSE [status |-> 200, result |-> Echo(to, from_num, text), sent |-> <<>>]

\* A faulty send_one_sms: a dry run is forwarded when FORWARD_URL is set.
send_one_sms_DryForwards(to0, from0, text0, dry, reply) ==
    LET to == strip(to0)
        from1 == strip(IF from0 = "" THEN DEFAULT_SENDER ELSE from0)
        from_num == IF from1 = "" THEN DEFAULT_SENDER ELSE from1
        text == strip(text0)
    IN  IF FORWARD_URL # ""
        THEN [status |-> Relayed("forward", reply).status,
              result |-> Relayed("forward", reply).result,
              sent |-> <<OutboundCall(FORWARD_URL, to, from_num, text)>>]
        ELSE IF dry \/ ~(SOLAPI_KEY # "" /\ SOLAPI_SECRET # "")
        THEN [status |-> 200, result |-> Echo(to, from_num, text), sent |-> <<>>]
        ELSE [status |-> Relayed("solapi", reply).status,
              result |-> Relayed("solapi", reply).result,
              sent |-> <<OutboundCall("https://api.solapi.com/messages/v4/send",
                                      to, from_num, text)>>]

\* send_one_sms(to, from_num, text, dry) when the gateway, if asked, gives
\* `reply`: the result, the status and the outbound calls made
send_one_sms(to0, from0, text0, dry, reply) ==
    LET to == strip(to0)
        from1 == strip(IF from0 = "" THEN DEFAULT_SENDER ELSE from0)
        from_num == IF from1 = "" THEN DEFAULT_SENDER ELSE from1
        text == strip(text0)
    IN  IF dry
        THEN [status |-> 200, result |-> Echo(to, from_num, text), sent |-> <<>>]
        ELSE IF FORWARD_URL # ""
        THEN [status |-> Relayed("forward", reply).status,
              result |-> Relayed("forward", reply).result,
              sent |-> <<OutboundCall(FORWARD_URL, to, from_num, text)>>]
        ELSE IF SOLAPI_KEY # "" /\ SOLAPI_SECRET # ""
        THEN [status |-> Relayed("solapi", reply).status,
              result |-> Relayed("solapi", reply).result,
              sent |-> <<OutboundCall("https://api.solapi.com/messages/v4/send",
                                      to, from_num, text)>>]
        ELSE [status |-> 200, result |-> Echo(to, from_num, text), sent |-> <<>>]

\* str(d.get(key, default)).strip() or default
TextField(d, key, default) ==
    LET got == strip(str(DictGet(d, key, JStr(default))))
    IN  IF got = "" THEN default ELSE got

\* POST /api/sms
sms_send(auth, body, reply) ==
    LET payload == get_json(body)
        to == TextField(payload, "to", "")
        from_num == TextField(payload, "from", DEFAULT_SENDER)
        text == TextField(payload, "text", "")
        dry == Truthy(DictGet(payload, "dry", JBool(FALSE)))
        one == send_one_sms(to, from_num, text, dry, reply)
    IN  /\ req' = [ep |-> "POST /api/sms", auth |-> auth, body |-> body]
        /\ IF ~check_auth(auth)
           THEN resp' = Unauthorized /\ UNCHANGED <<smsLog, outbound>>
           ELSE IF ~IsDict(payload)
           THEN resp' = Uncaught /\ UNCHANGED <<smsLog, outbound>>
           ELSE IF to = "" \/ text = ""
           THEN resp' = Response(400, ErrorBody("missing to/text"))
                /\ UNCHANGED <<smsLog, outbound>>
           ELSE /\ outbound' = outbound \o one.sent
                /\ smsLog' = append_log(smsLog,
                       JDict(<<KV("kind", JStr("sms")), KV("dry", JBool(dry)),
                               KV("to", JStr(to)), KV("from", JStr(from_num)),
                               KV("len", JNum(Len(text))),
                               KV("ok", JBool(Truthy(DictGet(one.result, "ok", JNull)))),
                               KV("provider", JStr(current_provider))>>))
                /\ resp' = Response(one.status, one.result)
        /\ UNCHANGED rosterJson
        /\ Frame

\* payload.get("messages") or payload.get("batch") or []
BulkMessages(payload) ==
    PyOr(DictGet(payload, "messages", JNull),
         PyOr(DictGet(payload, "batch", JNull), JList(<<>>)))

\* {"index": idx} updated with the result of send_one_sms
WithIndex(idx, result) ==
    JDict(<<KV("index", JNum(idx))>> \o SelectSeq(result.v, LAMBDA it : it.k # "index"))

\* A faulty loop of sms_send_bulk: the first message that is refused or fails
\* ends the loop.
RECURSIVE BulkLoop_StopAtInvalid(_, _, _, _, _, _)
BulkLoop_StopAtInvalid(messages, i, dry, from_default, replies, acc) ==
    IF i > Len(messages) THEN acc
    ELSE LET m == messages[i]
             idx == i - 1
             to == TextField(m, "to", "")
             text == TextField(m, "text", "")
             from_num == TextField(m, "from", from_default)
             one == send_one_sms(to, from_num, text, dry, replies[i])
             res_out == WithIndex(idx, one.result)
             ok == Truthy(DictGet(res_out, "ok", JNull))
             failed(error) ==
                 [acc EXCEPT !.results = Append(@,
                     JDict(<<KV("index", JNum(idx)), KV("ok", JBool(FALSE)),
                             KV("error", JStr(error))>>))]
             sent == [results |-> Append(acc.results, res_out),
                      ok_count |-> acc.ok_count + (IF ok THEN 1 ELSE 0),
                      log |-> append_log(acc.log,
                          JDict(<<KV("kind", JStr("sms_bulk_item")), KV("dry", JBool(dry)),
                                  KV("to", JStr(to)), KV("from", JStr(from_num)),
                                  KV("len", JNum(Len(text))), KV("ok", JBool(ok)),
                                  KV("provider", JStr(current_provider))>>)),
                      sent |-> acc.sent \o one.sent]
         IN  IF ~IsDict(m) THEN failed("invalid message")
             ELSE IF to = "" \/ text = "" THEN failed("missing to/text")
             ELSE IF ~ok THEN sent
             ELSE BulkLoop_StopAtInvalid(messages, i + 1, dry, from_default, replies, sent)

\* The loop of sms_send_bulk from the message at position i on, replies[i]
\* being the gateway's reply to it; acc holds results, ok_count, the log and
\* the outbound calls so far.
RECURSIVE BulkLoop(_, _, _, _, _, _)
BulkLoop(messages, i, dry, from_default, replies, acc) ==
    IF i > Len(messages) THEN acc
    ELSE LET m == messages[i]
             idx == i - 1
             to == TextField(m, "to", "")
             text == TextField(m, "text", "")
             from_num == TextField(m, "from", from_default)
             one == send_one_sms(to, from_num, text, dry, replies[i])
             res_out == WithIndex(idx, one.result)
             ok == Truthy(DictGet(res_out, "ok", JNull))
             failed(error) ==
                 [acc EXCEPT !.results = Append(@,
                     JDict(<<KV("index", JNum(idx)), KV("ok", JBool(FALSE)),
                             KV("error", JStr(error))>>))]
         IN  BulkLoop(messages, i + 1, dry, from_default, replies,
                 IF ~IsDict(m) THEN failed("invalid message")
                 ELSE IF to = "" \/ text = "" THEN failed("missing to/text")
                 ELSE [results |-> Append(acc.results, res_out),
                       ok_count |-> acc.ok_count + (IF ok THEN 1 ELSE 0),
                       log |-> append_log(acc.log,
                           JDict(<<KV("kind", JStr("sms_bulk_item")), KV("dry", JBool(dry)),
                                   KV("to", JStr(to)), KV("from", JStr(from_num)),
                                   KV("len", JNum(Len(text))), KV("ok", JBool(ok)),
                                   KV("provider", JStr(current_provider))>>)),
                       sent |-> acc.sent \o one.sent])

\* POST /api/sms/bulk
sms_send_bulk(auth, body, replies) ==
    LET payload == get_json(body)
        messages == BulkMessages(payload)
        dry == Truthy(DictGet(payload, "dry", JBool(FALSE)))
        from_default == TextField(payload, "from", DEFAULT_SENDER)
    IN  /\ req' = [ep |-> "POST /api/sms/bulk", auth |-> auth, body |-> body]
        /\ IF ~check_auth(auth)
           THEN resp' = Unauthorized /\ UNCHANGED <<smsLog, outbound>>
           ELSE IF ~IsDict(payload)
           THEN resp' = Uncaught /\ UNCHANGED <<smsLog, outbound>>
           ELSE IF ~IsList(messages) \/ ~Truthy(messages)
           THEN resp' = Response(400, ErrorBody("missing messages"))
                /\ UNCHANGED <<smsLog, outbound>>
           ELSE \E done \in {BulkLoop(messages.v, 1, dry, from_default, replies,
                              [results |-> <<>>, ok_count |-> 0,
                               log |-> smsLog, sent |-> outbound])} :
                LET count == Len(done.results) IN
                /\ outbound' = done.sent
                /\ smsLog' = append_log(done.log,
                       JDict(<<KV("kind", JStr("sms_bulk")), KV("dry", JBool(dry)),
                               KV("count", JNum(count)), KV("okCount", JNum(done.ok_count)),
                               KV("failCount", JNum(count - done.ok_count)),
                               KV("provider", JStr(current_provider))>>))
                /\ resp' = Response(200,
                       JDict(<<KV("ok", JBool(TRUE)), KV("dry", JBool(dry)),
                               KV("count", JNum(count)), KV("okCount", JNum(done.ok_count)),
                               KV("failCount", JNum(count - done.ok_count)),
                               KV("results", JList(done.results)),
                               KV("provider", JStr(current_provider)),
                               KV("at", utc_now_iso)>>))
        /\ UNCHANGED rosterJson
        /\ Frame

----------------------------------------------------------------------------
(* Inputs the model draws requests from.  The pools are sequences: their   *)
(* members are values of different shapes, which no set can hold together. *)

\* every sequence over `pool` of length exactly n, and of length at most n
RECURSIVE Exactly(_, _)
Exactly(pool, n) ==
    IF n = 0 THEN << <<>> >>
    ELSE LET prev == Exactly(pool, n - 1)
             m == Len(pool)
         IN  [k \in 1..(Len(prev) * m) |->
                 Append(prev[((k - 1) \div m) + 1], pool[((k - 1) % m) + 1])]

RECURSIVE Lists(_, _)
Lists(pool, n) == IF n = 0 THEN Exactly(pool, 0) ELSE Lists(pool, n - 1) \o Exactly(pool, n)

Map(Op(_), s) == [i \in 1..Len(s) |-> Op(s[i])]

Student(teacher, name, parentPhone, studentPhone) ==
    JDict(<<KV("teacher", teacher), KV("name", name),
            KV("parentPhone", parentPhone), KV("studentPhone", studentPhone)>>)

\* student objects: a plain one, one equal to it up to spaces, one with an
\* empty teacher, one with a blank name
StudentPool ==
    << Student(JStr("Kim"), JStr("A"), JStr("010-1"), JStr("")),
       Student(JStr(" Kim "), JStr(" A "), JStr(""), JNum(10)),
       Student(JStr(""), JStr("C"), JStr(""), JStr("")),
       Student(JStr("Lee"), JStr(" "), JStr("1"), JStr("")) >>

\* lists of student objects, and a list that holds something else
StudentLists == Map(JList, Lists(StudentPool, MaxRows)) \o <<JList(<<JStr("x")>>)>>

OneTeacher(l) == <<JDict(<<KV(" Lee ", l)>>), JDict(<<KV("", l)>>)>>

TwoTeachers(a) ==
    << JDict(<<KV("Kim", JList(<<StudentPool[1]>>)), KV(" Kim", JList(<<a>>))>>),
       JDict(<<KV("Kim", JList(<<a>>)), KV("Lee", JList(<<StudentPool[2]>>))>>),
       JDict(<<KV("Kim", JList(<<a>>)), KV("Lee", JStr("x"))>>) >>

RECURSIVE Flatten(_)
Flatten(ss) == IF Len(ss) = 0 THEN <<>> ELSE Head(ss) \o Flatten(Tail(ss))

\* {teacher: list} objects with one teacher, and with two
DirectRosters == Flatten(Map(OneTeacher, StudentLists)) \o Flatten(Map(TwoTeachers, StudentPool))

\* JSON values of every shape that are no roster
Scalars == <<JNull, JNum(5), JStr("x"), JList(<<JNum(1)>>), EmptyDict>>

StudentsAlone(l) == JDict(<<KV("students", l)>>)

StudentsBeside(l) == JDict(<<KV("version", JNum(1)), KV("students", l)>>)

StudentsInData(l) == JDict(<<KV("data", JDict(<<KV("students", l)>>))>>)

DataList(l) == JDict(<<KV("data", l)>>)

\* backups that hold a student list under 'students', alone or next to others
Backups == Map(StudentsAlone, StudentLists) \o Map(StudentsBeside, StudentLists)

\* backups of the other shapes the handlers look for
OtherBackups ==
    << StudentsInData(JList(<<StudentPool[1], StudentPool[2]>>)),
       DataList(JList(<<StudentPool[1]>>)),
       JDict(<<KV("state", JList(<<StudentPool[1]>>))>>),
       StudentsAlone(JStr("x")) >>

RosterBody(r) == JDict(<<KV("roster", r)>>)

\* bodies of POST /api/roster
SetBodies ==
    Map(RosterBody, DirectRosters \o <<JNull, JList(<<JNum(1)>>)>>) \o Scalars \o <<NotJson>>

\* bodies of POST /api/roster/import_student_mgmt
ImportBodies == StudentLists \o Backups \o OtherBackups \o Scalars \o <<NotJson>>

HeaderPool ==
    << <<"teacher", "name", "parentPhone", "studentPhone">>,
       <<"name", "teacher">>,
       <<"Teacher", " name ">>,
       <<H_damdang, H_ireum, H_hakbumojeonhwa>>,
       <<"teacher", "phone">>,
       <<"foo", "bar">> >>

RowPool ==
    << <<"Kim", "Lee", "010-1234", "+82 5">>,
       <<" Kim ", "Lee", "", "">>,
       <<"Kim", "">> >>

RowLists == Lists(RowPool, MaxRows) \o << <<<<>>, RowPool[1]>> >>

TablesWith(h) == [i \in 1..Len(RowLists) |-> CsvTable(h, RowLists[i])]

\* the CSV texts: a header row and at most MaxRows rows after it
CsvTables == Flatten(Map(TablesWith, HeaderPool))

\* the table csv.reader makes of a JSON text: one row, no known column
JsonAsCsv == CsvTable(<<"[{}]">>, <<>>)

CsvUpload(t) == UploadedFile("roster.csv", FALSE, NotJson, t)

JsonUpload(v) == UploadedFile("roster.json", FALSE, v, JsonAsCsv)

\* uploaded files
Uploads ==
    Map(CsvUpload, CsvTables)
    \o Map(JsonUpload, Flatten(Map(TwoTeachers, StudentPool)) \o Backups \o OtherBackups
                           \o StudentLists \o Scalars)
    \o << UploadedFile("BACKUP.JSON", FALSE, StudentsBeside(JList(<<StudentPool[1]>>)),
                       JsonAsCsv),
          UploadedFile("roster.json", FALSE, NotJson, CsvTable(<<"teacher", "name">>, <<>>)),
          UploadedFile("roster.txt", FALSE, JList(<<>>), JsonAsCsv),
          UploadedFile("roster.csv", TRUE, NotJson, CsvTable(<<>>, <<>>)),
          NoUpload >>

\* what static/roster.csv holds when it is there
StaticCsv == CsvTable(<<"teacher", "name", "parent">>, <<<<"Park", "Old", "010">>>>)

----------------------------------------------------------------------------
(* The roster service with auth off: every roster request.                 *)

NoRequest == [ep |-> "", auth |-> "", body |-> JNull]

NoResponse == Response(0, JNull)

NoCall == [fn |-> "", arg |-> JNull, ret |-> "", done |-> FALSE]

\* no page open
NoState == [roster |-> EmptyDict, teacherList |-> <<>>, currentTeacher |-> "",
            currentStudent |-> JNull, search |-> "", token |-> "",
            studentBox |-> <<>>, loaded |-> FALSE, toType |-> "parent",
            defaultFrom |-> ""]

\* nothing configured, nothing stored, nothing asked yet
InitQuiet ==
    /\ FORWARD_URL = ""
    /\ SOLAPI_KEY = ""
    /\ SOLAPI_SECRET = ""
    /\ DEFAULT_SENDER = "0108"
    /\ rosterJson = NoFile
    /\ smsLog = <<>>
    /\ outbound = <<>>
    /\ req = NoRequest
    /\ resp = NoResponse
    /\ state = NoState

InitServer == InitQuiet /\ call = NoCall

InitRoster ==
    /\ AUTH_TOKEN = ""
    /\ rosterCsv = CsvFile(StaticCsv)
    /\ InitServer

RosterGet == api_roster_get("") /\ UNCHANGED state

RosterSet ==
    \E i \in 1..Len(SetBodies) : api_roster_set("", SetBodies[i]) /\ UNCHANGED state

RosterUpload ==
    \E i \in 1..Len(Uploads) : api_roster_upload("", Uploads[i]) /\ UNCHANGED state

RosterImport ==
    \E i \in 1..Len(ImportBodies) :
        api_roster_import_student_mgmt("", ImportBodies[i]) /\ UNCHANGED state

NextRoster == RosterGet \/ RosterSet \/ RosterUpload \/ RosterImport

SpecRoster == InitRoster /\ [][NextRoster]_vars

----------------------------------------------------------------------------
(* What the specification calls a recognised column: a header is lower-    *)
(* cased, stripped of every character that is no ASCII letter or digit and *)
(* no Hangul syllable, and looked up in the synonyms of the field.         *)

AlnumSet == {Ch(LowerLetters, i) : i \in 1..26} \cup AsciiDigits

RECURSIVE KeepAlnum(_)
KeepAlnum(s) ==
    IF Len(s) = 0 THEN ""
    ELSE (IF Ch(s, 1) \in AlnumSet THEN Ch(s, 1) ELSE "") \o KeepAlnum(RestFrom(s, 2))

NormHeader(h) == KeepAlnum(lower(h))

\* 담당, 담당선생, 담당선생님, 선생님, teacher, tch, 담당자
TeacherSynonyms ==
    {H_damdang, "damdangseonsaeng", "damdangseonsaengnim", H_seonsaengnim, "teacher",
     "tch", "damdangja"}

\* 학생이름, 이름, name, student, 학생, 성명
NameSynonyms ==
    {"haksaengireum", H_ireum, "name", "student", H_haksaeng, "seongmyeong"}

Columns(header, synonyms) == {i \in 1..Len(header) : NormHeader(header[i]) \in synonyms}

\* the first recognised column, scanning left to right
FirstColumn(header, synonyms) ==
    CHOOSE i \in Columns(header, synonyms) : \A j \in Columns(header, synonyms) : i <= j

Cell(row, i) == IF i <= Len(row) THEN row[i] ELSE ""

\* the request just answered was an authorised upload of a CSV text
IsCsvUpload ==
    /\ req.ep = "POST /api/roster/upload"
    /\ check_auth(req.auth)
    /\ req.body.present
    /\ ~req.body.empty
    /\ ~endswith(lower(req.body.filename), ".json")

\* the request just answered was an authorised upload of a JSON text
IsJsonUpload ==
    /\ req.ep = "POST /api/roster/upload"
    /\ check_auth(req.auth)
    /\ req.body.present
    /\ ~req.body.empty
    /\ endswith(lower(req.body.filename), ".json")
    /\ req.body.json.t # "invalid"

\* the answer's body is a JSON object whose 'ok' is the boolean b
OkIs(r, b) ==
    /\ IsDict(r.body)
    /\ HasKey(r.body, "ok")
    /\ DictGet(r.body, "ok", JNull).t = "bool"
    /\ DictGet(r.body, "ok", JNull).v = b

\* the answer is a structured failure: a 4xx status, ok false and an error
IsFailure(r) ==
    /\ ~r.fault
    /\ r.status >= 400 /\ r.status < 500
    /\ OkIs(r, FALSE)
    /\ HasKey(r.body, "error")

\* the answer is a success: status 200 and ok true
IsSuccess(r) ==
    /\ ~r.fault
    /\ r.status = 200
    /\ OkIs(r, TRUE)

----------------------------------------------------------------------------
(* Claims about the roster builds.                                         *)

\* C3: a table whose header has no recognised teacher column or no recognised
\* name column is answered with an explicit failure, and no roster is stored
\* for it: roster.json stays as it was.
C3_ColumnDetectionFailure ==
    [][ (IsCsvUpload' /\ Len(req'.body.table.header) > 0
           /\ (Columns(req'.body.table.header, TeacherSynonyms) = {}
               \/ Columns(req'.body.table.header, NameSynonyms) = {}))
        => (IsFailure(resp') /\ rosterJson' = rosterJson) ]_vars

\* C4: when the header has a recognised teacher column and a recognised name
\* column, in any order, casing and padding, every row whose teacher and name
\* cells are not blank is in the roster under that teacher with that name.
C4_ColumnsResolved ==
    (IsCsvUpload /\ Columns(req.body.table.header, TeacherSynonyms) # {}
       /\ Columns(req.body.table.header, NameSynonyms) # {})
    => /\ IsSuccess(resp)
       /\ \A r \in 1..Len(req.body.table.rows) :
            LET row == req.body.table.rows[r]
                teacher == strip(Cell(row, FirstColumn(req.body.table.header, TeacherSynonyms)))
                name == strip(Cell(row, FirstColumn(req.body.table.header, NameSynonyms)))
                list == DictGet(rosterJson.data, teacher, JList(<<>>)).v
            IN  (teacher # "" /\ name # "")
                => \E k \in 1..Len(list) : DictGet(list[k], "name", JNull).v = name

\* The entries of a JSON roster input as the claims read it: a list of student
\* objects (bare, or under 'students') gives one entry per element, with the
\* element's own teacher; a {teacher: list} object gives one entry per element
\* of each list, with the key as teacher.
RECURSIVE DirectEntries(_)
DirectEntries(items) ==
    IF Len(items) = 0 THEN <<>>
    ELSE (IF IsList(Head(items).v)
          THEN [i \in 1..Len(Head(items).v.v) |->
                   [teacher |-> JStr(Head(items).k), item |-> Head(items).v.v[i]]]
          ELSE <<>>)
         \o DirectEntries(Tail(items))

FlatEntries(list) ==
    [i \in 1..Len(list) |->
        [teacher |-> IF IsDict(list[i]) THEN DictGet(list[i], "teacher", JStr(""))
                     ELSE JStr(""),
         item |-> list[i]]]

\* the student list of a bare list or of an object that holds one under 'students'
ClaimedStudents(v) ==
    IF IsList(v) THEN v
    ELSE IF IsDict(v) /\ IsList(DictGet(v, "students", JNull)) THEN DictGet(v, "students", JNull)
    ELSE JNull

EntriesOfJson(v) ==
    IF IsList(ClaimedStudents(v)) THEN FlatEntries(ClaimedStudents(v).v)
    ELSE IF IsDict(v) THEN DirectEntries(v.v)
    ELSE <<>>

TrimTeacher(e) == strip(str(e.teacher))

TrimName(e) == IF IsDict(e.item) THEN strip(str(DictGet(e.item, "name", JStr("")))) ELSE ""

Accepted(e) == TrimTeacher(e) # "" /\ TrimName(e) # ""

AcceptedOf(entries, t) == SelectSeq(entries, LAMBDA e : Accepted(e) /\ TrimTeacher(e) = t)

NamesOf(list) == [i \in 1..Len(list) |-> DictGet(list[i], "name", JStr("")).v]

\* `roster` is exactly the grouping of the accepted entries
IsGroupingOf(roster, entries) ==
    /\ Keys(roster) = {TrimTeacher(entries[i]) : i \in {j \in 1..Len(entries) : Accepted(entries[j])}}
    /\ \A t \in Keys(roster) :
         NamesOf(DictGet(roster, t, JList(<<>>)).v)
           = [i \in 1..Len(AcceptedOf(entries, t)) |-> TrimName(AcceptedOf(entries, t)[i])]
    /\ CountRecords(roster.v) = Len(SelectSeq(entries, Accepted))

\* the entries of the JSON roster input of the request just answered
RequestEntries ==
    IF req.ep = "POST /api/roster"
    THEN DirectEntries(DictGet(req.body, "roster", JNull).v)
    ELSE IF req.ep = "POST /api/roster/import_student_mgmt"
    THEN EntriesOfJson(req.body)
    ELSE EntriesOfJson(req.body.json)

\* the request just answered was a roster build from JSON that succeeded
IsJsonBuild ==
    /\ IsSuccess(resp)
    /\ \/ req.ep = "POST /api/roster"
       \/ req.ep = "POST /api/roster/import_student_mgmt"
       \/ IsJsonUpload

\* C5: every roster built from a JSON input is exactly the grouping of the
\* accepted entries: an entry is skipped iff its trimmed teacher or trimmed name
\* is empty, the others appear once each under their trimmed teacher in input
\* order, and the number of records is the number of entries not skipped.
C5_GroupingOfAccepted == IsJsonBuild => IsGroupingOf(rosterJson.data, RequestEntries)

\* C7: an uploaded JSON object that holds a 'students' list, or a bare list of
\* students, is grouped by each student's own teacher: the teachers of the
\* roster are the trimmed teachers of the accepted students.
C7_GroupedByOwnTeacher ==
    (IsJsonUpload /\ IsList(ClaimedStudents(req.body.json)))
    => /\ IsSuccess(resp)
       /\ LET entries == FlatEntries(ClaimedStudents(req.body.json).v)
          IN  Keys(rosterJson.data)
                = {TrimTeacher(entries[i]) : i \in {j \in 1..Len(entries) : Accepted(entries[j])}}

\* C9: a roster request whose body is valid JSON of any shape, or whose file is
\* not empty, gets a structured answer: ok true, or ok false with an error and
\* a 4xx status, never the 500 of an uncaught exception.
C9_NoUncaughtFault ==
    (/\ check_auth(req.auth)
     /\ \/ req.ep \in {"POST /api/roster", "POST /api/roster/import_student_mgmt"}
           /\ req.body.t # "invalid"
        \/ req.ep = "POST /api/roster/upload" /\ req.body.present /\ ~req.body.empty)
    => (IsSuccess(resp) \/ IsFailure(resp))

\* C10: a table with recognised teacher and name columns and no data row is
\* answered with a failure, not with ok true and an empty roster.
C10_EmptyInputReported ==
    (/\ IsCsvUpload
     /\ Columns(req.body.table.header, TeacherSynonyms) # {}
     /\ Columns(req.body.table.header, NameSynonyms) # {}
     /\ \A r \in 1..Len(req.body.table.rows) : Len(req.body.table.rows[r]) = 0)
    => (IsFailure(resp) /\ ~IsSuccess(resp))

----------------------------------------------------------------------------
(* normalize_phone on its own: one call on every input.                    *)

\* the characters phone inputs are made of: two ASCII digits, a non-ASCII
\* digit, a letter, a space and a hyphen
PhoneChars == {"0", "1", "²", "a", " ", "-"}

PhoneCall(arg) == [fn |-> "normalize_phone", arg |-> arg, ret |-> "", done |-> FALSE]

InitPhone ==
    /\ AUTH_TOKEN = ""
    /\ rosterCsv = NoFile
    /\ InitQuiet
    /\ \/ call \in {PhoneCall(JStr(x)) : x \in Strings(PhoneChars, MaxLen)}
       \/ call = PhoneCall(JNull)
       \/ call = PhoneCall(JNum(10))

NormalizePhone ==
    /\ call.fn = "normalize_phone"
    /\ ~call.done
    /\ call' = [call EXCEPT !.ret = normalize_phone(call.arg), !.done = TRUE]
    /\ UNCHANGED <<env, rosterJson, rosterCsv, smsLog, outbound, req, resp, state>>

NextPhone == NormalizePhone

SpecPhone == InitPhone /\ [][NextPhone]_vars

\* C1: the result of normalize_phone holds only the characters '0'-'9'.
C1_OnlyAsciiDigits ==
    (call.fn = "normalize_phone" /\ call.done)
    => \A i \in 1..Len(call.ret) : Ch(call.ret, i) \in AsciiDigits

----------------------------------------------------------------------------
(* The whole service behind a token: every endpoint, asked with every      *)
(* kind of Authorization header, the gateway being a forward URL.          *)

\* Authorization headers: none, the bare token, a wrong scheme, a wrong
\* token, a longer token, the exact header, and the header with two spaces
AuthPool ==
    << "", "tok", "bearer tok", "Bearer abc", "Bearer tokx", "Bearer tok", "Bearer  tok" >>

AuthSet == <<RosterBody(JDict(<<KV("Kim", JList(<<StudentPool[1]>>))>>))>>

AuthUploads == <<CsvUpload(CsvTable(HeaderPool[1], <<RowPool[1]>>))>>

AuthImports == <<JList(<<StudentPool[1], StudentPool[2]>>)>>

SmsBody(to, text) == JDict(<<KV("to", JStr(to)), KV("text", JStr(text))>>)

AuthSms == <<SmsBody("010-1", " hi ")>>

AuthBulk == <<JDict(<<KV("messages", JList(<<SmsBody("0102", "yo"), JStr("x")>>))>>)>>

\* how many messages a bulk body holds
BulkSize(body) ==
    IF IsDict(get_json(body)) /\ IsList(BulkMessages(get_json(body)))
    THEN Len(BulkMessages(get_json(body)).v) ELSE 0

InitAuth ==
    /\ AUTH_TOKEN = "tok"
    /\ rosterCsv = CsvFile(StaticCsv)
    /\ SOLAPI_KEY = ""
    /\ SOLAPI_SECRET = ""
    /\ FORWARD_URL = "http://fwd"
    /\ DEFAULT_SENDER = "0108"
    /\ rosterJson = NoFile
    /\ smsLog = <<>>
    /\ outbound = <<>>
    /\ req = NoRequest
    /\ resp = NoResponse
    /\ state = NoState
    /\ call = NoCall

AuthGet == \E a \in 1..Len(AuthPool) : api_roster_get(AuthPool[a]) /\ UNCHANGED state

AuthRosterSet ==
    \E a \in 1..Len(AuthPool), i \in 1..Len(AuthSet) :
        api_roster_set(AuthPool[a], AuthSet[i]) /\ UNCHANGED state

AuthRosterUpload ==
    \E a \in 1..Len(AuthPool), i \in 1..Len(AuthUploads) :
        api_roster_upload(AuthPool[a], AuthUploads[i]) /\ UNCHANGED state

AuthRosterImport ==
    \E a \in 1..Len(AuthPool), i \in 1..Len(AuthImports) :
        api_roster_import_student_mgmt(AuthPool[a], AuthImports[i]) /\ UNCHANGED state

\* the log is let grow to MaxLog lines and a request's worth more
AuthSmsSend ==
    /\ Len(smsLog) < MaxLog
    /\ \E a \in 1..Len(AuthPool), i \in 1..Len(AuthSms), r \in 1..Len(Replies) :
           sms_send(AuthPool[a], AuthSms[i], Replies[r]) /\ UNCHANGED state

AuthSmsBulk ==
    /\ Len(smsLog) < MaxLog
    /\ \E a \in 1..Len(AuthPool), i \in 1..Len(AuthBulk) :
           \E rs \in [1..BulkSize(AuthBulk[i]) -> 1..Len(Replies)] :
               sms_send_bulk(AuthPool[a], AuthBulk[i], [k \in DOMAIN rs |-> Replies[rs[k]]])
               /\ UNCHANGED state

NextAuth ==
    \/ AuthGet
    \/ AuthRosterSet
    \/ AuthRosterUpload
    \/ AuthRosterImport
    \/ AuthSmsSend
    \/ AuthSmsBulk

SpecAuth == InitAuth /\ [][NextAuth]_vars

\* what the documentation asks of the header: "Bearer " and then the token
\* itself, or the token with blanks around it
BearerOf(h) ==
    /\ Len(h) >= 7
    /\ SubSeq(h, 1, 7) = "Bearer "
    /\ strip(RestFrom(h, 8)) = AUTH_TOKEN

\* the step answers 401 and touches neither roster, log nor gateway
Refused == resp'.status = 401 /\ UNCHANGED <<rosterJson, smsLog, outbound>>

\* C2 as stated: with AUTH_TOKEN set, a request whose Authorization header is
\* not exactly "Bearer <AUTH_TOKEN>" is answered 401 and has no side effect.
C2_ExactHeaderOrRefused ==
    [][(AUTH_TOKEN # "" /\ req'.auth # "Bearer " \o AUTH_TOKEN) => Refused]_vars

\* C2: with AUTH_TOKEN set, a request on any of the six endpoints whose
\* Authorization header is not "Bearer " followed by the token, blanks around
\* the token aside, is answered 401 and changes neither the stored roster,
\* the log nor what was sent to the gateway.
C2_BearerOrRefused ==
    [][(AUTH_TOKEN # "" /\ ~BearerOf(req'.auth)) => Refused]_vars

\* an SMS request with a wrong token was refused while a roster and a log
\* line were there to lose
C2_Refusal ==
    /\ AUTH_TOKEN # ""
    /\ req.ep = "POST /api/sms"
    /\ req.auth = "Bearer tokx"
    /\ resp.status = 401
    /\ rosterJson.exists
    /\ Len(smsLog) > 0
    /\ Len(outbound) > 0

----------------------------------------------------------------------------
(* What GET /api/roster serves after roster writes.                        *)

WriteEndpoints ==
    {"POST /api/roster", "POST /api/roster/upload", "POST /api/roster/import_student_mgmt"}

\* the request was a roster write and was answered 200
IsWrite(r, answer) == r.ep \in WriteEndpoints /\ answer.status = 200

\* the roster the handler of the successful write `r` builds
BuiltBy(r) ==
    IF r.ep = "POST /api/roster"
    THEN NormTeachers(DictGet(get_json(r.body), "roster", JNull).v, EmptyDict)
    ELSE IF r.ep = "POST /api/roster/upload"
    THEN (IF endswith(lower(r.body.filename), ".json")
          THEN roster_from_json(r.body.json)
          ELSE roster_from_csv_text(r.body.table))
    ELSE GroupStudents(ImportStudents(get_json(r.body)).v, EmptyDict)

\* Writes of every kind over a small class: two students, one teacher who is
\* also the teacher of static/roster.csv, rosters with nobody in them, and
\* requests that are turned down.
ServeStudents ==
    << Student(JStr("Kim"), JStr("A"), JStr("010-1"), JStr("")),
       Student(JStr(" Lee "), JStr("B"), JStr(""), JStr("+82 5")) >>

ServeLists == Map(JList, Lists(ServeStudents, MaxRows))

ParkTeaches(l) == RosterBody(JDict(<<KV("Park", l)>>))

ServeSet == Map(ParkTeaches, ServeLists) \o <<RosterBody(JNull)>>

ServeImports == ServeLists \o <<JNull>>

ServeRows == << <<"Park", "New", "011">>, <<"Choi", "D", "">> >>

ServeTable(rows) == CsvTable(<<"teacher", "name", "parent">>, rows)

ServeUploads ==
    Map(CsvUpload, Map(ServeTable, Lists(ServeRows, MaxRows)))
    \o << JsonUpload(StudentsAlone(JList(<<ServeStudents[1]>>))),
          JsonUpload(JList(<<ServeStudents[2]>>)),
          UploadedFile("roster.json", FALSE, NotJson, JsonAsCsv),
          NoUpload >>

InitServe ==
    /\ AUTH_TOKEN = ""
    /\ rosterCsv \in {NoFile, BadFile, CsvFile(StaticCsv)}
    /\ InitServer

ServeGet == api_roster_get("") /\ UNCHANGED state

ServeRosterSet ==
    \E i \in 1..Len(ServeSet) : api_roster_set("", ServeSet[i]) /\ UNCHANGED state

ServeRosterUpload ==
    \E i \in 1..Len(ServeUploads) : api_roster_upload("", ServeUploads[i]) /\ UNCHANGED state

ServeRosterImport ==
    \E i \in 1..Len(ServeImports) :
        api_roster_import_student_mgmt("", ServeImports[i]) /\ UNCHANGED state

NextServe == ServeGet \/ ServeRosterSet \/ ServeRosterUpload \/ ServeRosterImport

SpecServe == InitServe /\ [][NextServe]_vars

\* C6: a successful roster write makes GET /api/roster serve exactly the
\* roster that write built, whatever was stored before and whatever
\* static/roster.csv holds; a request that is no successful write leaves what
\* is served as it was; and GET /api/roster serves it.
C6_LatestWriteServed ==
    [][/\ IsWrite(req', resp') => LoadRosterFrom(rosterJson', rosterCsv') = BuiltBy(req')
       /\ ~IsWrite(req', resp') =>
              LoadRosterFrom(rosterJson', rosterCsv') = LoadRosterFrom(rosterJson, rosterCsv)
       /\ (req'.ep = "GET /api/roster" /\ resp'.status = 200) =>
              DictGet(resp'.body, "roster", JNull) = LoadRosterFrom(rosterJson', rosterCsv')
      ]_vars

\* GET /api/roster served a roster.json with teachers in it, none of them the
\* teacher of static/roster.csv
C6_ServedAfterWrite ==
    /\ req.ep = "GET /api/roster"
    /\ resp.status = 200
    /\ rosterJson.exists
    /\ Len(DictGet(resp.body, "roster", EmptyDict).v) > 1
    /\ ~HasKey(DictGet(resp.body, "roster", EmptyDict), "Park")

----------------------------------------------------------------------------
(* The page's script: its state object, the search box, the token kept in  *)
(* localStorage and the student buttons as renderStudents last drew them.  *)

UiRecord(id, name, parentPhone) ==
    JDict(<<KV("id", JStr(id)), KV("name", JStr(name)),
            KV("parentPhone", JStr(parentPhone)), KV("studentPhone", JStr(""))>>)

\* the roster embedded in the page, cut down to one teacher and two students
ROSTER ==
    JDict(<<KV("Jang", JList(<<UiRecord("Jang::A", "A", "0101"),
                               UiRecord("Jang::B", "B", "0102")>>))>>)

\* the property an object does not have
Undefined == [t |-> "undefined", v |-> ""]

\* a === b for two values that are strings or undefined
StrictEq(a, b) == a.t = b.t /\ a.v = b.v

\* Object.keys(d)
ObjectKeys(d) == [i \in 1..Len(d.v) |-> d.v[i].k]

\* s.includes(q)
includes(s, q) == \E i \in 1..(Len(s) + 1) : startswith(RestFrom(s, i), q)

\* apiHeaders(): the Authorization header sent with the stored token, "" for none
apiHeaders(token) ==
    LET t == strip(token)
    IN  IF t = "" THEN ""
        ELSE IF startswith(t, "Bearer ") THEN t ELSE "Bearer " \o t

\* the list renderStudents draws: the current teacher's students whose name
\* holds the text of the search box
Filtered(st) ==
    LET list == DictGet(st.roster, st.currentTeacher, JList(<<>>)).v
        q == strip(st.search)
        shown(x) == LET name == DictGet(x, "name", Undefined)
                    IN  name.t = "str" /\ name.v # "" /\ includes(name.v, q)
    IN  IF q # "" THEN SelectSeq(list, shown) ELSE list

\* renderStudents(): one button per student, "on" by the test on the ids
renderStudents(st) ==
    LET filtered == Filtered(st)
        cur == st.currentStudent
    IN  IF Len(filtered) = 0
        THEN [st EXCEPT !.studentBox = <<>>, !.currentStudent = JNull]
        ELSE [st EXCEPT !.studentBox =
                 [i \in 1..Len(filtered) |->
                     [name |-> DictGet(filtered[i], "name", Undefined),
                      on |-> /\ ~IsNone(cur)
                             /\ StrictEq(DictGet(cur, "id", Undefined),
                                         DictGet(filtered[i], "id", Undefined))]]]

\* loadRoster(): GET /api/roster with the stored token, then the state from
\* the answer, or from the embedded roster when the answer is not 2xx.  Which
\* teacher comes first in the answer is the serialiser's matter: `first` is
\* any of them.
loadRoster ==
    /\ api_roster_get(apiHeaders(state.token))
    /\ LET ok == resp'.status = 200
           roster == IF ok THEN DictGet(resp'.body, "roster", EmptyDict) ELSE ROSTER
           keep == /\ state.currentTeacher # ""
                   /\ (~ok \/ HasKey(roster, state.currentTeacher))
       IN  \E first \in (IF keep THEN {state.currentTeacher}
                         ELSE IF Len(roster.v) = 0 THEN {""} ELSE Keys(roster)) :
               state' = renderStudents([state EXCEPT !.roster = roster,
                                                     !.teacherList = ObjectKeys(roster),
                                                     !.currentTeacher = first,
                                                     !.loaded = TRUE])

\* what a click or a keystroke on the page leaves alone
UiFrame == UNCHANGED <<env, rosterJson, rosterCsv, smsLog, outbound, req, resp, call>>

\* a click on the button of teacher t
ClickTeacher(t) ==
    /\ state.loaded
    /\ state' = renderStudents([state EXCEPT !.currentTeacher = t, !.currentStudent = JNull])
    /\ UiFrame

\* a click on the i-th student button
ClickStudent(i) ==
    /\ state.loaded
    /\ state' = renderStudents([state EXCEPT !.currentStudent = Filtered(state)[i]])
    /\ UiFrame

\* typing q into the search box
Search(q) ==
    /\ state.loaded
    /\ state' = renderStudents([state EXCEPT !.search = q])
    /\ UiFrame

\* setToken(v) on a change of the token box
setToken(v) ==
    /\ state' = [state EXCEPT !.token = strip(v)]
    /\ UiFrame

\* onlyDigits(s): s.replace(/\D/g, ""), \D being all but the ASCII digits
RECURSIVE onlyDigits(_)
onlyDigits(s) ==
    IF Len(s) = 0 THEN ""
    ELSE (IF Ch(s, 1) \in AsciiDigits THEN Ch(s, 1) ELSE "") \o onlyDigits(RestFrom(s, 2))

\* norm(s): eleven digits are shown 3-4-4 and ten digits 3-3-4, the greedy
\* match of (\d{2,3})(\d{3,4})(\d{4}) on ten digits; anything else is shown
\* as it is
norm(s) ==
    LET d == onlyDigits(s)
    IN  IF Len(d) = 11
        THEN SubSeq(d, 1, 3) \o "-" \o SubSeq(d, 4, 7) \o "-" \o SubSeq(d, 8, 11)
        ELSE IF Len(d) = 10
        THEN SubSeq(d, 1, 3) \o "-" \o SubSeq(d, 4, 6) \o "-" \o SubSeq(d, 7, 10)
        ELSE s

\* computeTo(), customTo being the text of the #customTo box
computeTo(st, customTo) ==
    IF st.toType = "custom" THEN norm(customTo)
    ELSE IF IsNone(st.currentStudent) THEN ""
    ELSE IF st.toType = "parent"
    THEN norm(DictGet(st.currentStudent, "parentPhone", JStr("")).v)
    ELSE IF st.toType = "student"
    THEN norm(DictGet(st.currentStudent, "studentPhone", JStr("")).v)
    ELSE ""

\* a click on one of the three recipient buttons
setToType(to) ==
    /\ state' = [state EXCEPT !.toType = to]
    /\ UiFrame

\* send(), the boxes #customTo, #text and #dry holding customTo, text and
\* dry; text holds no {given} to fill in.  With no student, no number or no
\* text nothing is posted.
send(customTo, text, dry, reply) ==
    LET s == state.currentStudent
        to == onlyDigits(computeTo(state, customTo))
        from_num == onlyDigits(state.defaultFrom)
    IN  IF IsNone(s) \/ to = "" \/ strip(text) = ""
        THEN UNCHANGED vars
        ELSE /\ sms_send(apiHeaders(state.token),
                         JDict(<<KV("to", JStr(to)), KV("from", JStr(from_num)),
                                 KV("text", JStr(text)),
                                 KV("student", DictGet(s, "name", JNull)),
                                 KV("dry", JBool(dry))>>),
                         reply)
             /\ UNCHANGED state

----------------------------------------------------------------------------
(* The page in front of the service: rosters are imported, the page loads  *)
(* them, and teachers and students are clicked.                            *)

\* students of one teacher, two of them of the same name
UiStudents ==
    << Student(JStr("Kim"), JStr("A"), JStr("0101"), JStr("")),
       Student(JStr("Kim"), JStr("A"), JStr("0102"), JStr("")),
       Student(JStr("Lee"), JStr("B"), JStr(""), JStr("")) >>

UiImports == Map(JList, Lists(UiStudents, MaxRows))

SearchTexts == {"", "A", "Z"}

TokenTexts == {"", " tok "}

InitUi ==
    /\ AUTH_TOKEN \in {"", "tok"}
    /\ rosterCsv = NoFile
    /\ FORWARD_URL = ""
    /\ SOLAPI_KEY = ""
    /\ SOLAPI_SECRET = ""
    /\ DEFAULT_SENDER = "0108"
    /\ rosterJson = NoFile
    /\ smsLog = <<>>
    /\ outbound = <<>>
    /\ req = NoRequest
    /\ resp = NoResponse
    /\ call = NoCall
    /\ state = [NoState EXCEPT !.roster = ROSTER, !.teacherList = ObjectKeys(ROSTER)]

\* a roster imported by whoever holds the token
UiImport ==
    \E i \in 1..Len(UiImports) :
        /\ api_roster_import_student_mgmt(apiHeaders(AUTH_TOKEN), UiImports[i])
        /\ UNCHANGED state

UiLoadRoster == loadRoster

UiClickTeacher == \E i \in 1..Len(state.teacherList) : ClickTeacher(state.teacherList[i])

UiClickStudent == \E i \in 1..Len(state.studentBox) : ClickStudent(i)

UiSearch == \E q \in SearchTexts : Search(q)

UiSetToken == \E v \in TokenTexts : setToken(v)

NextUi ==
    \/ UiImport
    \/ UiLoadRoster
    \/ UiClickTeacher
    \/ UiClickStudent
    \/ UiSearch
    \/ UiSetToken

SpecUi == InitUi /\ [][NextUi]_vars

\* the records of the roster d all carry an id, and no two records of one
\* teacher carry the same
CarryDistinctIds(d) ==
    \A t \in 1..Len(d.v) :
        LET list == d.v[t].v.v
        IN  /\ \A i \in 1..Len(list) : HasKey(list[i], "id")
            /\ \A i, j \in 1..Len(list) :
                   (i # j) => ~StrictEq(DictGet(list[i], "id", Undefined),
                                        DictGet(list[j], "id", Undefined))

\* the student buttons drawn as selected
Selected == {i \in 1..Len(state.studentBox) : state.studentBox[i].on}

AtMostOneSelected == Cardinality(Selected) <= 1

\* C8: every record of the roster the server stores, and of the roster it
\* returned to the page, carries an id, the ids within one teacher's list are
\* pairwise distinct, and at most one student button of the displayed list is
\* drawn as selected.
C8_DistinctIdsOneSelected ==
    /\ rosterJson.exists => CarryDistinctIds(rosterJson.data)
    /\ state.loaded => CarryDistinctIds(state.roster)
    /\ AtMostOneSelected

----------------------------------------------------------------------------
(* Teacher keys and names of the rosters the service builds.               *)

\* every teacher key of the roster d is non-empty after trimming and every
\* record of d has a non-empty name
KeysAndNamesNonEmpty(d) ==
    \A t \in 1..Len(d.v) :
        /\ strip(d.v[t].k) # ""
        /\ \A i \in 1..Len(d.v[t].v.v) :
               str(DictGet(d.v[t].v.v[i], "name", JStr(""))) # ""

\* C11: in the roster a write stored and in the roster load_roster returns,
\* every teacher key is non-empty after trimming and every record's name is
\* non-empty.
C11_NonEmptyKeysAndNames ==
    /\ rosterJson.exists => KeysAndNamesNonEmpty(rosterJson.data)
    /\ KeysAndNamesNonEmpty(load_roster)

----------------------------------------------------------------------------
(* The SMS endpoints with auth off, under every provider configuration.    *)

\* bodies of POST /api/sms: a plain one, a dry run with a sender, 'to' null,
\* 'to' blank, 'to' absent, 'text' absent, 'text' null in a dry run, a body
\* that is no object and a body that is no JSON
SmsBodies ==
    << SmsBody("010-1", " hi "),
       JDict(<<KV("to", JStr(" 0102 ")), KV("from", JStr(" 0109 ")), KV("text", JStr("yo")),
               KV("dry", JBool(TRUE))>>),
       JDict(<<KV("to", JNull), KV("text", JStr("hi"))>>),
       JDict(<<KV("to", JStr("  ")), KV("text", JStr("hi"))>>),
       JDict(<<KV("text", JStr("hi"))>>),
       JDict(<<KV("to", JStr("010-1")), KV("from", JStr(""))>>),
       JDict(<<KV("to", JStr("010-1")), KV("text", JNull), KV("dry", JBool(TRUE))>>),
       JNum(5),
       NotJson >>

\* bodies of POST /api/sms/bulk: an invalid message between two valid ones, a
\* dry batch with a default sender, messages with 'to' null and 'text' blank,
\* an empty list, a 'messages' that is no list, and a body with neither key
BulkBodies ==
    << JDict(<<KV("messages", JList(<<SmsBody("0102", "yo"), JStr("x"),
                                      SmsBody(" 0103 ", "hi")>>))>>),
       JDict(<<KV("batch", JList(<<SmsBody("0102", " yo "),
                                   JDict(<<KV("to", JStr("0103"))>>)>>)),
               KV("from", JStr(" 0107 ")), KV("dry", JBool(TRUE))>>),
       JDict(<<KV("messages", JList(<<JDict(<<KV("to", JNull), KV("text", JStr("hi"))>>),
                                      JDict(<<KV("to", JStr("0102")), KV("text", JStr(" "))>>)>>))>>),
       JDict(<<KV("messages", JList(<<>>))>>),
       JDict(<<KV("messages", JStr("x"))>>),
       EmptyDict >>

\* provider configurations: nothing set, a forward URL, Solapi keys, both,
\* and a Solapi key without its secret
Providers ==
    << <<"", "", "">>, <<"http://fwd", "", "">>, <<"", "key", "secret">>,
       <<"http://fwd", "key", "secret">>, <<"", "key", "">> >>

\* the replies that can tell: one is as good as any when no gateway is asked
RepliesHeard == IF current_provider = "mock" THEN 1..1 ELSE 1..Len(Replies)

InitSms ==
    /\ AUTH_TOKEN = ""
    /\ \E p \in 1..Len(Providers) :
           /\ FORWARD_URL = Providers[p][1]
           /\ SOLAPI_KEY = Providers[p][2]
           /\ SOLAPI_SECRET = Providers[p][3]
    /\ DEFAULT_SENDER = "0108"
    /\ rosterJson = NoFile
    /\ rosterCsv = NoFile
    /\ smsLog = <<>>
    /\ outbound = <<>>
    /\ req = NoRequest
    /\ resp = NoResponse
    /\ state = NoState
    /\ call = NoCall

\* the log is let grow to MaxLog lines and a request's worth more
SmsSend ==
    /\ Len(smsLog) < MaxLog
    /\ \E i \in 1..Len(SmsBodies), r \in RepliesHeard :
           sms_send("", SmsBodies[i], Replies[r]) /\ UNCHANGED state

SmsBulk ==
    /\ Len(smsLog) < MaxLog
    /\ \E i \in 1..Len(BulkBodies) :
           \E rs \in [1..BulkSize(BulkBodies[i]) -> RepliesHeard] :
               sms_send_bulk("", BulkBodies[i], [k \in DOMAIN rs |-> Replies[rs[k]]])
               /\ UNCHANGED state

NextSms == SmsSend \/ SmsBulk

SpecSms == InitSms /\ [][NextSms]_vars

----------------------------------------------------------------------------
(* Claims about the SMS endpoints.                                         *)

\* the calls a step adds to the outbound calls made so far
NewCalls == SubSeq(outbound', Len(outbound) + 1, Len(outbound'))

\* the request just handled asks for a dry run
IsDryRun(r) ==
    IsDict(get_json(r.body)) /\ Truthy(DictGet(get_json(r.body), "dry", JBool(FALSE)))

\* how many messages the request just handled carries
MessageCount(r) == IF r.ep = "POST /api/sms" THEN 1 ELSE BulkSize(r.body)

\* the answer is one a forward gateway gives or the 502 of a forward call
\* that raised
ForwardAnswer(status, result) ==
    \/ str(DictGet(result, "provider", JNull)) = "forward"
    \/ /\ status = 502
       /\ str(DictGet(result, "error", JNull)) = "forward-failed"

\* C12: with FORWARD_URL set, every outbound call goes to FORWARD_URL and
\* none to Solapi, also when the Solapi keys are set and when the forward
\* call fails; a request makes at most one call per message, and an accepted
\* POST /api/sms that is no dry run makes exactly one and is answered by the
\* forward gateway or with 502 forward-failed.
C12_ForwardOnly ==
    [][ FORWARD_URL # "" =>
          /\ Len(outbound') >= Len(outbound)
          /\ SubSeq(outbound', 1, Len(outbound)) = outbound
          /\ \A i \in 1..Len(NewCalls) : NewCalls[i].url = FORWARD_URL
          /\ Len(NewCalls) <= MessageCount(req')
          /\ (req'.ep = "POST /api/sms" /\ Len(smsLog') > Len(smsLog) /\ ~IsDryRun(req'))
                => /\ Len(NewCalls) = 1
                   /\ ForwardAnswer(resp'.status, resp'.body)
          /\ (req'.ep = "POST /api/sms/bulk" /\ resp'.status = 200)
                => \A i \in 1..Len(DictGet(resp'.body, "results", JNull).v) :
                       LET res == DictGet(resp'.body, "results", JNull).v[i]
                       IN  str(DictGet(res, "provider", JNull)) # "solapi"
                           /\ str(DictGet(res, "error", JNull)) # "solapi-failed"
      ]_vars

\* a forward call failed with the Solapi keys set: 502 forward-failed, and the
\* one call made went to FORWARD_URL
C12_ForwardFailed ==
    /\ FORWARD_URL # "" /\ SOLAPI_KEY # "" /\ SOLAPI_SECRET # ""
    /\ req.ep = "POST /api/sms"
    /\ resp.status = 502
    /\ str(DictGet(resp.body, "error", JNull)) = "forward-failed"
    /\ Len(outbound) = 1
    /\ outbound[1].url = FORWARD_URL

\* the field of a request or message as text, trimmed
Trimmed(d, key) == strip(str(DictGet(d, key, JStr(""))))

\* the sender a message goes out with: its own, else the request's, else the
\* configured one
SenderOf(m, payload) ==
    IF Trimmed(m, "from") # "" THEN Trimmed(m, "from")
    ELSE IF Trimmed(payload, "from") # "" THEN Trimmed(payload, "from")
    ELSE DEFAULT_SENDER

\* a message that passes validation
Validated(m) == IsDict(m) /\ Trimmed(m, "to") # "" /\ Trimmed(m, "text") # ""

\* res is the mock answer echoing to, from_num and text
IsEchoOf(res, to, from_num, text) ==
    /\ DictGet(res, "ok", JNull) = JBool(TRUE)
    /\ DictGet(res, "provider", JNull) = JStr("mock")
    /\ DictGet(res, "dry", JNull) = JBool(TRUE)
    /\ DictGet(DictGet(res, "echo", EmptyDict), "to", JNull) = JStr(to)
    /\ DictGet(DictGet(res, "echo", EmptyDict), "from", JNull) = JStr(from_num)
    /\ DictGet(DictGet(res, "echo", EmptyDict), "text", JNull) = JStr(text)

\* C13: a request to POST /api/sms or POST /api/sms/bulk with dry true makes
\* no outbound call under any provider configuration, and every validated
\* message is answered ok true, provider 'mock', dry true with an echo of the
\* trimmed to, from and text.
C13_DryRunEchoes ==
    [][ IsDryRun(req') =>
          LET payload == get_json(req'.body) IN
          /\ outbound' = outbound
          /\ (req'.ep = "POST /api/sms" /\ Validated(payload))
                => /\ resp'.status = 200
                   /\ IsEchoOf(resp'.body, Trimmed(payload, "to"),
                               SenderOf(payload, payload), Trimmed(payload, "text"))
          /\ (req'.ep = "POST /api/sms/bulk" /\ BulkSize(req'.body) > 0)
                => /\ resp'.status = 200
                   /\ \A i \in 1..BulkSize(req'.body) :
                          LET m == BulkMessages(payload).v[i]
                              res == DictGet(resp'.body, "results", JNull).v[i]
                          IN  Validated(m) =>
                                  IsEchoOf(res, Trimmed(m, "to"), SenderOf(m, payload),
                                           Trimmed(m, "text"))
      ]_vars

\* a dry bulk request was answered with an echo although a forward URL and
\* the Solapi keys are set, and nothing has gone out
C13_DryBulkEchoed ==
    /\ FORWARD_URL # "" /\ SOLAPI_KEY # "" /\ SOLAPI_SECRET # ""
    /\ req.ep = "POST /api/sms/bulk"
    /\ IsDryRun(req)
    /\ resp.status = 200
    /\ DictGet(resp.body, "okCount", JNull) = JNum(1)
    /\ DictGet(DictGet(resp.body, "results", JNull).v[1], "provider", JNull) = JStr("mock")
    /\ outbound = <<>>
    /\ Len(smsLog) = 2

\* the field is absent, JSON null, or empty after trimming
Missing(d, key) ==
    \/ ~HasKey(d, key)
    \/ IsNone(DictGet(d, key, JNull))
    \/ Trimmed(d, key) = ""

\* C19: POST /api/sms is rejected with 400 'missing to/text', sends nothing
\* and logs nothing whenever 'to' or 'text' is absent, JSON null or empty
\* after trimming; every accepted request appends exactly one log line and
\* makes at most one outbound call.
C19_MissingRejected ==
    [][ (req'.ep = "POST /api/sms" /\ IsDict(get_json(req'.body))) =>
          LET payload == get_json(req'.body) IN
          IF Missing(payload, "to") \/ Missing(payload, "text")
          THEN /\ resp' = Response(400, ErrorBody("missing to/text"))
               /\ outbound' = outbound
               /\ smsLog' = smsLog
          ELSE /\ Len(smsLog') = Len(smsLog) + 1
               /\ Len(outbound') <= Len(outbound) + 1
      ]_vars

\* the log lines a step appends
NewLines == SubSeq(smsLog', Len(smsLog) + 1, Len(smsLog'))

\* the messages of a list that pass validation, in the list's order
ValidOnes(messages) == SelectSeq(messages, Validated)

\* C20: a POST /api/sms/bulk with a non-empty messages list is answered with
\* one result per message in input order (results[i].index = i, from 0),
\* count is the number of messages, okCount the number of results with ok
\* true and okCount + failCount = count; send_one_sms is called once, in
\* input order, for each message that is an object with non-empty trimmed to
\* and text (one log line each, and one outbound call each when a gateway is
\* configured and the run is not dry), whatever became of the messages before.
C20_OneResultPerMessage ==
    [][ (req'.ep = "POST /api/sms/bulk" /\ BulkSize(req'.body) > 0) =>
          \A messages \in {BulkMessages(get_json(req'.body)).v} :
          \A results \in {DictGet(resp'.body, "results", JList(<<>>)).v} :
          \A valid \in {ValidOnes(messages)} :
          LET n == Len(messages)
              okCount == DictGet(resp'.body, "okCount", JNull)
              failCount == DictGet(resp'.body, "failCount", JNull)
          IN  /\ resp'.status = 200
              /\ Len(results) = n
              /\ \A i \in 1..n :
                     /\ DictGet(results[i], "index", JNull) = JNum(i - 1)
                     /\ ~Validated(messages[i]) =>
                            /\ DictGet(results[i], "ok", JNull) = JBool(FALSE)
                            /\ str(DictGet(results[i], "error", JNull))
                                   \in {"invalid message", "missing to/text"}
                     /\ Validated(messages[i]) =>
                            str(DictGet(results[i], "error", JNull))
                                \notin {"invalid message", "missing to/text"}
              /\ DictGet(resp'.body, "count", JNull) = JNum(n)
              /\ okCount = JNum(Cardinality({i \in 1..n :
                                DictGet(results[i], "ok", JNull) = JBool(TRUE)}))
              /\ okCount.v + failCount.v = n
              /\ Len(NewLines) = Len(valid) + 1
              /\ \A k \in 1..Len(valid) :
                     /\ DictGet(NewLines[k], "kind", JNull) = JStr("sms_bulk_item")
                     /\ DictGet(NewLines[k], "to", JNull) = JStr(Trimmed(valid[k], "to"))
              /\ (current_provider # "mock" /\ ~IsDryRun(req')) =>
                     /\ Len(NewCalls) = Len(valid)
                     /\ \A k \in 1..Len(valid) :
                            /\ NewCalls[k].to = Trimmed(valid[k], "to")
                            /\ NewCalls[k].text = Trimmed(valid[k], "text")
      ]_vars

\* a bulk request of three messages: the first failed at the gateway, the
\* second is no object, and the third was still sent
C20_LaterStillSent ==
    /\ req.ep = "POST /api/sms/bulk"
    /\ resp.status = 200
    /\ Len(DictGet(resp.body, "results", JList(<<>>)).v) = 3
    /\ str(DictGet(DictGet(resp.body, "results", JNull).v[1], "error", JNull)) = "forward-failed"
    /\ str(DictGet(DictGet(resp.body, "results", JNull).v[2], "error", JNull)) = "invalid message"
    /\ DictGet(DictGet(resp.body, "results", JNull).v[3], "ok", JNull) = JBool(TRUE)
    /\ DictGet(resp.body, "okCount", JNull) = JNum(1)
    /\ DictGet(resp.body, "failCount", JNull) = JNum(2)
    /\ Len(outbound) = 2
    /\ outbound[2].to = "0103"

----------------------------------------------------------------------------
(* normalize_phone applied to its own result.                              *)

\* normalize_phone(normalize_phone(x)): the second call takes the first
\* call's result as its argument
NormalizeAgain ==
    /\ call.fn = "normalize_phone"
    /\ call.done
    /\ call' = [fn |-> "normalize_phone twice", arg |-> JStr(call.ret),
                ret |-> normalize_phone(JStr(call.ret)), done |-> TRUE]
    /\ UNCHANGED <<env, rosterJson, rosterCsv, smsLog, outbound, req, resp, state>>

NextIdem == NormalizePhone \/ NormalizeAgain

SpecIdem == InitPhone /\ [][NextIdem]_vars

\* C15: normalize_phone is idempotent, normalize_phone(normalize_phone(x)) =
\* normalize_phone(x), and the empty input gives the empty output.
C15_Idempotent ==
    /\ (call.fn = "normalize_phone twice" /\ call.done) => call.ret = call.arg.v
    /\ (call.fn = "normalize_phone" /\ call.done /\ call.arg = JStr("")) => call.ret = ""

\* normalize_phone was applied to a result of two digits starting with a
\* zero, which it had made of a longer input
C15_AppliedTwice ==
    /\ call.fn = "normalize_phone twice"
    /\ call.done
    /\ call.arg = JStr("0²")
    /\ call.ret = "0²"

----------------------------------------------------------------------------
(* roster_from_csv_text on its own: one call on every table.               *)

\* header names: two the code reads the teacher from, two it reads the name
\* from, one it reads each phone from, and one it does not know
ColumnNames == <<"teacher", H_seonsaengnim, "name", H_ireum, "parent", "student", "x">>

\* rows: a full one with a phone-like third cell, a short one with spaces, one
\* with an empty name, and a long one with an empty teacher
CsvRowPool ==
    << <<"Kim", "A", "010-1">>, <<" Lee ", "B">>, <<"Kim", "", "5">>,
       <<"", "C", "010-2", "7">> >>

CsvHeaders == Lists(ColumnNames, MaxLen)

CsvRowLists == Lists(CsvRowPool, MaxRows)

CsvCall(t) == [fn |-> "roster_from_csv_text", arg |-> t, ret |-> EmptyDict, done |-> FALSE]

InitCsv ==
    /\ AUTH_TOKEN = ""
    /\ rosterCsv = NoFile
    /\ InitQuiet
    /\ \E h \in 1..Len(CsvHeaders), r \in 1..Len(CsvRowLists) :
           call = CsvCall(CsvTable(CsvHeaders[h], CsvRowLists[r]))

BuildFromCsv ==
    /\ call.fn = "roster_from_csv_text"
    /\ ~call.done
    /\ call' = [call EXCEPT !.ret = roster_from_csv_text(call.arg), !.done = TRUE]
    /\ UNCHANGED <<env, rosterJson, rosterCsv, smsLog, outbound, req, resp, state>>

NextCsv == BuildFromCsv

SpecCsv == InitCsv /\ [][NextCsv]_vars

\* the header has a column of one of these names
HasColumn(header, names) == \E i \in 1..Len(header) : header[i] \in names

TeacherColumns == {"teacher", H_damdang, H_seonsaengnim}

NameColumns == {"name", H_ireum}

PhoneColumns ==
    {"parentPhone", "parent", H_hakbumo, H_hakbumojeonhwa,
     "studentPhone", "student", H_haksaeng, H_haksaengjeonhwa}

\* C16: a table with a teacher column and a name column but no parent-phone
\* or student-phone column builds a roster, and every record of it has
\* parentPhone = '' and studentPhone = ''.
C16_NoPhoneColumnsEmptyPhones ==
    (/\ call.fn = "roster_from_csv_text" /\ call.done
     /\ HasColumn(call.arg.header, TeacherColumns)
     /\ HasColumn(call.arg.header, NameColumns)
     /\ ~HasColumn(call.arg.header, PhoneColumns))
    => /\ IsDict(call.ret)
       /\ \A t \in 1..Len(call.ret.v) :
              /\ IsList(call.ret.v[t].v)
              /\ \A i \in 1..Len(call.ret.v[t].v.v) :
                     /\ DictGet(call.ret.v[t].v.v[i], "parentPhone", JNull) = JStr("")
                     /\ DictGet(call.ret.v[t].v.v[i], "studentPhone", JNull) = JStr("")

\* a table whose third column is not one the code knows, though its cell
\* looks like a phone, gave a record with both phones empty
C16_RecordWithoutPhones ==
    /\ call.fn = "roster_from_csv_text" /\ call.done
    /\ call.arg = CsvTable(<<"teacher", "name", "x">>, <<<<"Kim", "A", "010-1">>>>)
    /\ call.ret = JDict(<<KV("Kim", JList(<<StudentRecord("A", "", "")>>))>>)

----------------------------------------------------------------------------
(* load_roster on its own: one call on every pair of roster files.         *)

\* items of a stored teacher's list: a record as save_roster writes it, one
\* with spaces and an undigested phone, a blank-named one, and a non-object
StoredItems ==
    << StudentRecord("A", "0101", ""),
       JDict(<<KV("name", JStr(" B ")), KV("parentPhone", JStr("010-2"))>>),
       StudentRecord(" ", "1", ""),
       JStr("x") >>

StoredUnder(items) ==
    JsonFile(JDict(<<KV(" Kim ", JList(items)), KV("Lee", JStr("no list"))>>))

\* data/roster.json: absent, unreadable or unparseable, an object of teachers,
\* the empty object, and JSON texts that are no object
JsonFiles ==
    << NoFile, BadFile >>
    \o Map(StoredUnder, Lists(StoredItems, MaxRows))
    \o Map(JsonFile, << EmptyDict, JList(<<>>), JList(<<StoredItems[1]>>), JNull,
                        JNum(0), JNum(5), JStr("x"), JBool(TRUE) >>)

\* static/roster.csv: absent, unreadable, a roster, no row, no known column
CsvFiles ==
    << NoFile, BadFile, CsvFile(StaticCsv),
       CsvFile(CsvTable(<<"teacher", "name">>, <<>>)),
       CsvFile(CsvTable(<<"foo">>, <<<<"Kim">>>>)) >>

LoadCall == [fn |-> "load_roster", arg |-> JNull, ret |-> EmptyDict, done |-> FALSE]

InitLoad ==
    /\ AUTH_TOKEN = ""
    /\ FORWARD_URL = ""
    /\ SOLAPI_KEY = ""
    /\ SOLAPI_SECRET = ""
    /\ DEFAULT_SENDER = ""
    /\ \E j \in 1..Len(JsonFiles) : rosterJson = JsonFiles[j]
    /\ \E c \in 1..Len(CsvFiles) : rosterCsv = CsvFiles[c]
    /\ smsLog = <<>>
    /\ outbound = <<>>
    /\ req = NoRequest
    /\ resp = NoResponse
    /\ state = NoState
    /\ call = LoadCall

CallLoadRoster ==
    /\ call.fn = "load_roster"
    /\ ~call.done
    /\ call' = [call EXCEPT !.ret = load_roster, !.done = TRUE]
    /\ UNCHANGED <<env, rosterJson, rosterCsv, smsLog, outbound, req, resp, state>>

NextLoad == CallLoadRoster

SpecLoad == InitLoad /\ [][NextLoad]_vars

\* roster.json is there and parses to a JSON object
ParsesToObject(f) == f.exists /\ f.readable /\ IsDict(f.data)

\* roster.json is absent, unreadable or unparseable, or holds a JSON value
\* that is no object and not one `or {}` replaces
PassedOver(f) == ~f.exists \/ ~f.readable \/ (~IsDict(f.data) /\ Truthy(f.data))

\* the roster of a stored object: the teachers whose value is a list, under
\* their trimmed key, each with its named records in order
IsRosterOf(roster, data) ==
    /\ IsDict(roster)
    /\ Keys(roster) = {strip(data.v[i].k) : i \in {j \in 1..Len(data.v) : IsList(data.v[j].v)}}
    /\ \A i \in 1..Len(data.v) :
           IsList(data.v[i].v) =>
               DictGet(roster, strip(data.v[i].k), JNull) = JList(NormItems(data.v[i].v.v))

\* C17: load_roster returns the roster read from data/roster.json whenever
\* that file is there and parses to a JSON object, whatever static/roster.csv
\* holds; static/roster.csv decides the result only when roster.json is
\* absent, unreadable, unparseable or no object; with no source to read the
\* result is the empty roster; and the result is always a roster.
C17_JsonBeforeCsv ==
    (call.fn = "load_roster" /\ call.done) =>
        /\ IsDict(call.ret)
        /\ ParsesToObject(rosterJson) => IsRosterOf(call.ret, rosterJson.data)
        /\ call.ret # LoadRosterFrom(rosterJson, NoFile) => ~ParsesToObject(rosterJson)
        /\ PassedOver(rosterJson) =>
               call.ret = IF rosterCsv.exists /\ rosterCsv.readable
                          THEN roster_from_csv_text(rosterCsv.data) ELSE EmptyDict
        /\ (~ParsesToObject(rosterJson) /\ ~(rosterCsv.exists /\ rosterCsv.readable))
               => call.ret = EmptyDict

\* roster.json holds a teacher with one record and static/roster.csv holds
\* another roster: the stored one is returned
C17_StoredRosterWins ==
    /\ call.fn = "load_roster" /\ call.done
    /\ rosterJson = StoredUnder(<<StoredItems[2]>>)
    /\ rosterCsv = CsvFile(StaticCsv)
    /\ call.ret = JDict(<<KV("Kim", JList(<<StudentRecord("B", "0102", "")>>))>>)

----------------------------------------------------------------------------
(* Roster requests that are turned down, behind a token.                   *)

\* Authorization headers: the right one and a wrong one
RejectAuth == <<"Bearer tok", "Bearer no">>

\* uploads: those of the small class and a file with no byte in it
RejectUploads ==
    ServeUploads \o <<UploadedFile("roster.csv", TRUE, NotJson, CsvTable(<<>>, <<>>))>>

\* bodies of POST /api/roster: those of the small class, one whose roster is a
\* list and one that is no JSON
RejectSet == ServeSet \o <<RosterBody(JList(<<ServeStudents[1]>>)), NotJson>>

\* bodies of the import: those of the small class, one whose students are no
\* list and one that is no JSON
RejectImports == ServeImports \o <<StudentsAlone(JStr("x")), NotJson>>

InitReject ==
    /\ AUTH_TOKEN = "tok"
    /\ rosterCsv \in {NoFile, CsvFile(StaticCsv)}
    /\ InitServer

RejectGet ==
    \E a \in 1..Len(RejectAuth) : api_roster_get(RejectAuth[a]) /\ UNCHANGED state

RejectRosterSet ==
    \E a \in 1..Len(RejectAuth), i \in 1..Len(RejectSet) :
        api_roster_set(RejectAuth[a], RejectSet[i]) /\ UNCHANGED state

RejectRosterUpload ==
    \E a \in 1..Len(RejectAuth), i \in 1..Len(RejectUploads) :
        api_roster_upload(RejectAuth[a], RejectUploads[i]) /\ UNCHANGED state

RejectRosterImport ==
    \E a \in 1..Len(RejectAuth), i \in 1..Len(RejectImports) :
        api_roster_import_student_mgmt(RejectAuth[a], RejectImports[i]) /\ UNCHANGED state

NextReject == RejectGet \/ RejectRosterSet \/ RejectRosterUpload \/ RejectRosterImport

SpecReject == InitReject /\ [][NextReject]_vars

RosterEndpoints == WriteEndpoints \cup {"GET /api/roster"}

\* the errors a roster request is turned down with
RosterRefusals ==
    {"unauthorized", "invalid roster", "missing file", "empty file", "invalid json",
     "students not found"}

\* C18: a roster request answered with a 4xx status leaves data/roster.json
\* and static/roster.csv as they were, and GET /api/roster returns what
\* load_roster makes of the two files, so the GET that follows a refused
\* request returns the roster stored before it.
C18_RefusedLeavesRoster ==
    [][ /\ (req'.ep \in RosterEndpoints /\ resp'.status \in 400..499) =>
              /\ str(DictGet(resp'.body, "error", JNull)) \in RosterRefusals
              /\ rosterJson' = rosterJson
              /\ rosterCsv' = rosterCsv
        /\ (req'.ep = "GET /api/roster" /\ resp'.status = 200) =>
              DictGet(resp'.body, "roster", JNull) = LoadRosterFrom(rosterJson, rosterCsv)
      ]_vars

\* a POST /api/roster with the right token was refused as an invalid roster
\* while a roster with a teacher in it is stored
C18_RefusedWithRosterStored ==
    /\ req.ep = "POST /api/roster"
    /\ req.auth = "Bearer tok"
    /\ resp.status = 400
    /\ str(DictGet(resp.body, "error", JNull)) = "invalid roster"
    /\ rosterJson.exists
    /\ Len(rosterJson.data.v) > 0

----------------------------------------------------------------------------
(* The page sending a message to the selected student.  The page is open   *)
(* and loadConfig() has put the server's default sender into the state.    *)

\* students with phones of eleven and ten digits, and one whose phone holds
\* a digit that is not an ASCII digit
SendStudents ==
    << Student(JStr("Kim"), JStr("A"), JStr("010-1234-5678"), JStr("02-1234-5678")),
       Student(JStr("Kim"), JStr("B"), JStr("²2010"), JStr("")) >>

\* imports: both students, and the second alone
SendImports == <<JList(SendStudents), JList(<<SendStudents[2]>>)>>

\* what the recipient buttons set, and what the boxes may hold
ToTypes == {"parent", "student", "custom"}

CustomTexts == {"010 1"}

MessageTexts == {"hi", " "}

InitSend ==
    /\ AUTH_TOKEN = ""
    /\ rosterCsv = NoFile
    /\ FORWARD_URL = ""
    /\ SOLAPI_KEY = ""
    /\ SOLAPI_SECRET = ""
    /\ DEFAULT_SENDER = "0108"
    /\ rosterJson = NoFile
    /\ smsLog = <<>>
    /\ outbound = <<>>
    /\ req = NoRequest
    /\ resp = NoResponse
    /\ call = NoCall
    /\ state = [NoState EXCEPT !.roster = ROSTER, !.teacherList = ObjectKeys(ROSTER),
                               !.defaultFrom = DEFAULT_SENDER]

SendImport ==
    \E i \in 1..Len(SendImports) :
        /\ api_roster_import_student_mgmt("", SendImports[i])
        /\ UNCHANGED state

SendSetToType == \E to \in ToTypes : setToType(to)

\* the log is let grow to MaxLog lines
SendSend ==
    /\ Len(smsLog) < MaxLog
    /\ \E customTo \in CustomTexts, text \in MessageTexts, dry \in BOOLEAN :
           send(customTo, text, dry, Replies[1])

NextSend ==
    \/ SendImport
    \/ UiLoadRoster
    \/ UiClickStudent
    \/ SendSetToType
    \/ SendSend

SpecSend == InitSend /\ [][NextSend]_vars

\* the phones of the records of the roster d
PhonesOf(d) ==
    UNION {UNION {{DictGet(d.v[t].v.v[i], "parentPhone", JStr("")).v,
                   DictGet(d.v[t].v.v[i], "studentPhone", JStr("")).v} :
                      i \in 1..Len(d.v[t].v.v)} : t \in 1..Len(d.v)}

\* norm keeps the digits of s, and changes s only when it has ten or eleven
FormattingKeepsDigits(s) ==
    /\ onlyDigits(norm(s)) = onlyDigits(s)
    /\ norm(s) # s => Len(onlyDigits(s)) \in {10, 11}

\* the phone of the selected student the recipient button stands for
StoredPhone(st) ==
    DictGet(st.currentStudent, IF st.toType = "parent" THEN "parentPhone" ELSE "studentPhone",
            JStr(""))

\* C14: display formatting keeps the digits of every phone of the page's
\* roster and changes only phones of ten or eleven digits, and the 'to' that
\* send() posts for the parent or the student is the stored parentPhone or
\* studentPhone of the selected student.
C14_PostedToIsStoredPhone ==
    [][ /\ \A p \in PhonesOf(state.roster) : FormattingKeepsDigits(p)
        /\ (Len(smsLog') > Len(smsLog) /\ state.toType \in {"parent", "student"})
               => DictGet(req'.body, "to", JNull) = StoredPhone(state)
      ]_vars

====
